---- MODULE Spec2Model ----
(***************************************************************************)
(* Playlist, persistence and startup reconciliation of the wallpaper GUI.  *)
(*                                                                         *)
(* The state is the in-memory PlaylistManager and WallpaperEngine, the     *)
(* playlist panel (PlaylistWidget), the interval timer of the main window, *)
(* and the settings file both managers write.  Indices are 0-based as in   *)
(* the source; the element at index i of a list l is l[i + 1].             *)
(***************************************************************************)
EXTENDS Integers, Sequences, FiniteSets, TLC

VARIABLES
    current_playlist,   \* PlaylistManager.current_playlist
    current_index,      \* PlaylistManager.current_index
    is_playing,         \* PlaylistManager.is_playing
    is_random,          \* PlaylistManager.is_random
    timer_interval,     \* PlaylistManager.timer_interval (seconds)
    playlists,          \* PlaylistManager.playlists, entry "current"
    current_wallpaper,  \* WallpaperEngine.current_wallpaper
    last_settings,      \* WallpaperEngine.last_settings
    pw_items,           \* PlaylistWidget.playlist_widget items (ids)
    pw_current,         \* PlaylistWidget._current_wallpaper
    pw_random,          \* PlaylistWidget.random_radio.isChecked()
    timer_active,       \* MainWindow.playlist_timer.isActive()
    timer_ms,           \* MainWindow.playlist_timer.interval()
    settings_file,      \* contents of SETTINGS_FILE
    probe_env,          \* process table and swww state the startup probes will see
    phase,              \* "off" | "constructed" | "running"
    last,               \* the startup step or the call that ran last, and what it saw
    picks,              \* identifiers returned by the random advances so far
    recent_wallpapers,  \* PlaylistManager.recent_wallpapers, followed where
                        \* add_to_recent is called directly
    refactored_recent,  \* Collect.PlaylistData.recent_wallpapers of core_refactored
    lock                \* the lock file and the application processes around it

vars == <<current_playlist, current_index, is_playing, is_random, timer_interval,
          playlists, current_wallpaper, last_settings, pw_items, pw_current,
          pw_random, timer_active, timer_ms, settings_file, probe_env, phase,
          last, picks, recent_wallpapers, refactored_recent, lock>>

pmVars == <<current_playlist, current_index, is_playing, is_random,
            timer_interval, playlists>>
engineVars == <<current_wallpaper, last_settings>>
widgetVars == <<pw_items, pw_current, pw_random>>
timerVars == <<timer_active, timer_ms>>

-----------------------------------------------------------------------------
(* Bounds and program constants *)

None == "None"

\* Wallpaper identifiers of the gallery (Workshop folder names).
Ids == {"A", "B", "C"}

\* Longest current playlist the user builds.
MaxPlaylistLen == 2

\* Longest playlist built by direct calls of the manager.
MaxCallLen == 3

DEFAULT_TIMER_INTERVAL == 60
ALT_TIMER_INTERVAL == 30
TimerIntervals == {ALT_TIMER_INTERVAL, DEFAULT_TIMER_INTERVAL}

DEFAULT_VOLUME == 50
DEFAULT_FPS == 60

-----------------------------------------------------------------------------
(* Sequences *)

Range(s) == {s[i] : i \in 1..Len(s)}

NoDuplicates(s) == \A i, j \in 1..Len(s) : s[i] = s[j] => i = j

\* list.pop(index) with a 0-based index
Pop(s, index) == SubSeq(s, 1, index) \o SubSeq(s, index + 2, Len(s))

\* list.index(x) answering 0 for every x
IndexOf_first(s, x) == 0

\* list.index(x), 0-based
IndexOf(s, x) == (CHOOSE i \in 1..Len(s) : s[i] = x /\ \A j \in 1..(i - 1) : s[j] # x) - 1

Min(a, b) == IF a < b THEN a ELSE b
Max(a, b) == IF a > b THEN a ELSE b

-----------------------------------------------------------------------------
(* Dictionaries of the program, as records with presence flags *)

\* the empty dict {} of last_settings
NoSettings ==
    [keys |-> {}, screen |-> "", volume |-> 0, fps |-> 0, noautomute |-> FALSE,
     no_audio_processing |-> FALSE, disable_mouse |-> FALSE]

SettingKeys == {"screen", "volume", "fps", "noautomute", "no_audio_processing",
                "disable_mouse"}

\* PlaylistManager.playlists without the entry "current"
NoPlaylists == [has_current |-> FALSE, current |-> <<>>]

\* SETTINGS_FILE does not exist
NoFile ==
    [exists |-> FALSE, has_pm |-> FALSE, playlists |-> NoPlaylists,
     timer_interval |-> DEFAULT_TIMER_INTERVAL, is_random |-> FALSE,
     current_playlist |-> <<>>, current_index |-> 0, is_playing |-> FALSE,
     has_ws |-> FALSE, ws_current_wallpaper |-> None, ws_last_settings |-> NoSettings]

\* How many instances of the application are started
Instances == 3

\* No instance has started and the lock file does not exist.  path: the
\* inode lock_path names (0: none); created: inodes made so far; holder: which
\* process has the flock on an inode; pid: what is written in it; fd: the
\* inode State.lock_file of a process is open on; pc: where the process is.
NoLock ==
    [path |-> 0, created |-> 0,
     holder |-> [i \in 1..Instances |-> 0],
     pid |-> [i \in 1..Instances |-> 0],
     fd |-> [p \in 1..Instances |-> 0],
     pc |-> [p \in 1..Instances |-> "start"],
     is_locked |-> [p \in 1..Instances |-> FALSE],
     main_window |-> [p \in 1..Instances |-> FALSE]]

\* An empty process table: no renderer, no video tool, nothing reported by swww.
NoProcesses == [renderer |-> [form |-> None, id |-> None], video |-> None, swww |-> None]

\* A record of a step: what ran, on which identifier, what it returned; the
\* startup also records what it loaded from the settings file.
Last(op, id, ret) ==
    [op |-> op, id |-> id, ret |-> ret, snap_playing |-> FALSE,
     snap_index |-> 0, snap_interval |-> 0, snap_wallpaper |-> None,
     probe_failed |-> FALSE]

-----------------------------------------------------------------------------
(* PlaylistManager: pure parts of its methods *)

\* The fields save_settings writes, as one value.
PM(cp, ci, ip, ir, ti, pls) ==
    [current_playlist |-> cp, current_index |-> ci, is_playing |-> ip,
     is_random |-> ir, timer_interval |-> ti, playlists |-> pls]

\* PlaylistManager.save_settings: the whole file is rewritten from the
\* manager's fields; the key wallpaper_state is not among them.
save_settings(pm) ==
    [exists |-> TRUE, has_pm |-> TRUE, playlists |-> pm.playlists,
     timer_interval |-> pm.timer_interval, is_random |-> pm.is_random,
     current_playlist |-> pm.current_playlist,
     current_index |-> pm.current_index, is_playing |-> pm.is_playing,
     has_ws |-> FALSE, ws_current_wallpaper |-> None,
     ws_last_settings |-> NoSettings]

\* PlaylistManager.load_settings: the fields after loading file f over the
\* constructor's defaults (data.get(key, default) for every key).
load_settings(f) ==
    IF f.exists /\ f.has_pm
    THEN PM(f.current_playlist, f.current_index, f.is_playing, f.is_random,
            f.timer_interval, f.playlists)
    ELSE PM(<<>>, 0, FALSE, FALSE, DEFAULT_TIMER_INTERVAL, NoPlaylists)

\* WallpaperEngine._save_state: read the file, set wallpaper_state, write back.
save_state(f, cw, ls) ==
    [f EXCEPT !.exists = TRUE, !.has_ws = TRUE, !.ws_current_wallpaper = cw,
              !.ws_last_settings = ls]

\* WallpaperEngine._load_state: current_wallpaper and last_settings read
\* from wallpaper_state (absent key: None and {}).
load_state(f) ==
    IF f.exists /\ f.has_ws
    THEN [current_wallpaper |-> f.ws_current_wallpaper,
          last_settings |-> f.ws_last_settings]
    ELSE [current_wallpaper |-> None, last_settings |-> NoSettings]

\* add_to_current_playlist without the membership test
add_to_current_playlist_unchecked(pl, w) ==
    IF w = "" THEN [ret |-> FALSE, playlist |-> pl]
    ELSE [ret |-> TRUE, playlist |-> Append(pl, w)]

\* PlaylistManager.add_to_current_playlist
add_to_current_playlist(pl, w) ==
    IF w = "" THEN [ret |-> FALSE, playlist |-> pl]
    ELSE IF w \notin Range(pl) THEN [ret |-> TRUE, playlist |-> Append(pl, w)]
    ELSE [ret |-> FALSE, playlist |-> pl]

remove_from_current_playlist_keep(pl, ci, index) ==
    IF 0 <= index /\ index < Len(pl)
    THEN [ret |-> TRUE, playlist |-> Pop(pl, index), index |-> ci]
    ELSE [ret |-> FALSE, playlist |-> pl, index |-> ci]

\* PlaylistManager.remove_from_current_playlist
remove_from_current_playlist(pl, ci, index) ==
    IF 0 <= index /\ index < Len(pl)
    THEN LET np == Pop(pl, index) IN
         [ret |-> TRUE, playlist |-> np,
          index |-> IF index <= ci /\ ci > 0 THEN ci - 1
                    ELSE IF ci >= Len(np) /\ np # <<>> THEN 0
                    ELSE ci]
    ELSE [ret |-> FALSE, playlist |-> pl, index |-> ci]

get_current_wallpaper(pl, ci) ==
    IF pl # <<>> /\ 0 <= ci /\ ci < Len(pl) THEN pl[ci + 1] ELSE None

\* next_index leaving the cursor where it is
next_index_stay(pl, ci, random_mode, r) == ci

\* The cursor get_next_wallpaper moves to; r is the outcome of
\* random.randint(0, len - 1).
next_index(pl, ci, random_mode, r) ==
    IF random_mode THEN r ELSE (ci + 1) % Len(pl)

\* previous_index stopping at the first entry
previous_index_floor(pl, ci) == Max(ci - 1, 0)

\* The cursor get_previous_wallpaper moves to.
previous_index(pl, ci) == (ci - 1) % Len(pl)

\* PlaylistManager.get_next_wallpaper on the manager's fields pm: nothing
\* on an empty playlist, otherwise the cursor moves, the fields are saved
\* and the identifier under the cursor is returned.
get_next_wallpaper(pm, random_mode, r, f) ==
    IF pm.current_playlist = <<>> THEN [id |-> None, pm |-> pm, file |-> f]
    ELSE LET npm == [pm EXCEPT !.current_index =
                        next_index(pm.current_playlist, pm.current_index, random_mode, r)]
         IN [id |-> get_current_wallpaper(npm.current_playlist, npm.current_index),
             pm |-> npm, file |-> save_settings(npm)]

\* PlaylistManager.get_previous_wallpaper
get_previous_wallpaper(pm, f) ==
    IF pm.current_playlist = <<>> THEN [id |-> None, pm |-> pm, file |-> f]
    ELSE LET npm == [pm EXCEPT !.current_index =
                        previous_index(pm.current_playlist, pm.current_index)]
         IN [id |-> get_current_wallpaper(npm.current_playlist, npm.current_index),
             pm |-> npm, file |-> save_settings(npm)]

\* MainWindow._save_current_playlist: create_playlist("current", ...) for a
\* non-empty playlist, delete_playlist("current") otherwise; both save, and
\* nothing is saved when the playlist is empty and there is no such entry.
save_current_playlist(cp, pls) ==
    IF cp # <<>> THEN [playlists |-> [has_current |-> TRUE, current |-> cp], saved |-> TRUE]
    ELSE IF pls.has_current THEN [playlists |-> NoPlaylists, saved |-> TRUE]
    ELSE [playlists |-> pls, saved |-> FALSE]

-----------------------------------------------------------------------------
(* PlaylistWidget *)

add_wallpaper_to_playlist(items, w) ==
    IF w = "" \/ w \in Range(items) THEN [ret |-> FALSE, items |-> items]
    ELSE [ret |-> TRUE, items |-> Append(items, w)]

\* get_playlist_count answering 1 whatever the panel holds
get_playlist_count_one(items) == 1

\* PlaylistWidget.get_playlist_count
get_playlist_count(items) == Len(items)

-----------------------------------------------------------------------------
(* WallpaperEngine and MainWindow.apply_wallpaper *)

\* The keyword arguments MainWindow.apply_wallpaper reads from the controls,
\* which rest at their defaults.
ControlSettings ==
    [keys |-> SettingKeys, screen |-> "eDP-1", volume |-> DEFAULT_VOLUME,
     fps |-> DEFAULT_FPS, noautomute |-> FALSE, no_audio_processing |-> FALSE,
     disable_mouse |-> FALSE]

\* WallpaperEngine.apply_wallpaper. ok: the identifier resolves, the binary
\* exists and Popen succeeds.  On success the engine records the wallpaper
\* and the settings and calls _save_state.
engine_apply_wallpaper(ok, w, s, cw, ls, f) ==
    IF ok
    THEN [ret |-> TRUE, current_wallpaper |-> w, last_settings |-> s,
          file |-> save_state(f, w, s)]
    ELSE [ret |-> FALSE, current_wallpaper |-> cw, last_settings |-> ls, file |-> f]

\* MainWindow.apply_wallpaper for a renderer wallpaper: the engine's launch,
\* then on success the panel's label and PlaylistManager.add_to_recent,
\* whose save_settings writes the manager's fields pm.
apply_wallpaper(ok, w, s, cw, ls, pwc, f, pm) ==
    LET e == engine_apply_wallpaper(ok, w, s, cw, ls, f) IN
    [ret |-> e.ret, current_wallpaper |-> e.current_wallpaper,
     last_settings |-> e.last_settings,
     pw_current |-> IF e.ret THEN w ELSE pwc,
     file |-> IF e.ret THEN save_settings(pm) ELSE e.file]

-----------------------------------------------------------------------------
(* Initial state: first start, no settings file, window constructed *)

Init ==
    /\ current_playlist = <<>>
    /\ current_index = 0
    /\ is_playing = FALSE
    /\ is_random = FALSE
    /\ timer_interval = DEFAULT_TIMER_INTERVAL
    /\ playlists = NoPlaylists
    /\ current_wallpaper = None
    /\ last_settings = NoSettings
    /\ pw_items = <<>>
    /\ pw_current = None
    /\ pw_random = FALSE
    /\ timer_active = FALSE
    /\ timer_ms = 0
    /\ settings_file = NoFile
    /\ probe_env = NoProcesses
    /\ phase = "running"
    /\ last = Last("init", None, FALSE)
    /\ picks = <<>>
    /\ recent_wallpapers = <<>>
    /\ refactored_recent = <<>>
    /\ lock = NoLock

-----------------------------------------------------------------------------
(* Handlers of the main window while the application runs *)

CurPM == PM(current_playlist, current_index, is_playing, is_random,
            timer_interval, playlists)

SetPM(pm) ==
    /\ current_playlist' = pm.current_playlist
    /\ current_index' = pm.current_index
    /\ is_playing' = pm.is_playing
    /\ is_random' = pm.is_random
    /\ timer_interval' = pm.timer_interval
    /\ playlists' = pm.playlists

\* What every handler of the running window does to the bookkeeping: the
\* record of the startup is over.
Ran ==
    /\ phase' = "running"
    /\ probe_env' = NoProcesses
    /\ last' = Last("handler", None, FALSE)
    /\ UNCHANGED <<picks, recent_wallpapers, refactored_recent, lock>>

\* Outcomes of random.randint(0, len(current_playlist) - 1); the sequential
\* advance draws nothing.
RandomIndexes(random_mode) ==
    IF random_mode THEN 0..Max(Len(current_playlist) - 1, 0) ELSE {0}

\* MainWindow._on_add_to_playlist_requested(w): the panel's duplicate check,
\* then the manager's, then _save_current_playlist.
AddToPlaylist(w) ==
    LET pw == add_wallpaper_to_playlist(pw_items, w)
        a == add_to_current_playlist(current_playlist, w)
        scp == save_current_playlist(a.playlist, playlists)
        pm == [CurPM EXCEPT !.current_playlist = a.playlist,
                            !.playlists = scp.playlists]
    IN IF pw.ret
       THEN /\ pw_items' = pw.items
            /\ SetPM(pm)
            /\ settings_file' = IF scp.saved THEN save_settings(pm) ELSE settings_file
            /\ Ran
            /\ UNCHANGED <<engineVars, pw_current, pw_random, timerVars>>
       ELSE /\ Ran
            /\ UNCHANGED <<pmVars, engineVars, widgetVars, timerVars, settings_file>>

OnAddToPlaylistRequested ==
    /\ phase = "running"
    /\ \E w \in Ids :
         /\ Len(pw_items) < MaxPlaylistLen \/ w \in Range(pw_items)
         /\ AddToPlaylist(w)

\* MainWindow._on_add_current_to_playlist: the same with the engine's
\* current wallpaper, when there is one.
OnAddCurrentToPlaylist ==
    /\ phase = "running"
    /\ current_wallpaper # None
    /\ Len(pw_items) < MaxPlaylistLen \/ current_wallpaper \in Range(pw_items)
    /\ AddToPlaylist(current_wallpaper)

\* MainWindow._on_remove_from_playlist with the row index selected in the
\* panel (currentRow(): -1 when nothing is selected).
OnRemoveFromPlaylist ==
    /\ phase = "running"
    /\ \E index \in -1..(Len(pw_items) - 1) :
         IF index >= 0
         THEN LET rm == remove_from_current_playlist(current_playlist, current_index, index)
                  scp == save_current_playlist(rm.playlist, playlists)
                  pm == [CurPM EXCEPT !.current_playlist = rm.playlist,
                                      !.current_index = rm.index,
                                      !.playlists = scp.playlists]
              IN /\ pw_items' = Pop(pw_items, index)
                 /\ SetPM(pm)
                 /\ settings_file' = IF scp.saved THEN save_settings(pm) ELSE settings_file
                 /\ Ran
                 /\ UNCHANGED <<engineVars, pw_current, pw_random, timerVars>>
         ELSE /\ Ran
              /\ UNCHANGED <<pmVars, engineVars, widgetVars, timerVars, settings_file>>

\* MainWindow._on_clear_playlist, requested by the panel only when it has
\* items (PlaylistWidget._on_clear_requested) and the user confirms.
OnClearPlaylist ==
    /\ phase = "running"
    /\ Len(pw_items) > 0
    /\ LET scp == save_current_playlist(<<>>, playlists)
           pm == [CurPM EXCEPT !.current_playlist = <<>>, !.current_index = 0,
                               !.is_playing = FALSE, !.playlists = scp.playlists]
       IN /\ pw_items' = <<>>
          /\ timer_active' = FALSE
          /\ SetPM(pm)
          /\ settings_file' = IF scp.saved THEN save_settings(pm) ELSE settings_file
          /\ Ran
          /\ UNCHANGED <<engineVars, pw_current, pw_random, timer_ms>>

\* The start branch of MainWindow._on_toggle_playlist: the mode is read
\* from the panel, get_next_wallpaper picks (r: the random outcome), the
\* pick is applied (ok: the launch succeeds), the timer starts and
\* is_playing is set.
StartPlaylist(r, ok) ==
    /\ phase = "running"
    /\ get_playlist_count(pw_items) # 0
    /\ ~is_playing
    /\ LET g == get_next_wallpaper([CurPM EXCEPT !.is_random = pw_random],
                                   pw_random, r, settings_file)
           a == IF g.id # None
                THEN apply_wallpaper(ok, g.id, ControlSettings, current_wallpaper,
                                     last_settings, pw_current, g.file, g.pm)
                ELSE [ret |-> FALSE, current_wallpaper |-> current_wallpaper,
                      last_settings |-> last_settings, pw_current |-> pw_current,
                      file |-> g.file]
       IN /\ SetPM([g.pm EXCEPT !.is_playing = TRUE])
          /\ current_wallpaper' = a.current_wallpaper
          /\ last_settings' = a.last_settings
          /\ pw_current' = a.pw_current
          /\ settings_file' = a.file
          /\ timer_active' = TRUE
          /\ timer_ms' = timer_interval * 1000
          /\ Ran
          /\ UNCHANGED <<pw_items, pw_random>>

\* The stop branch of MainWindow._on_toggle_playlist
StopPlaylist ==
    /\ phase = "running"
    /\ get_playlist_count(pw_items) # 0
    /\ is_playing
    /\ timer_active' = FALSE
    /\ is_playing' = FALSE
    /\ Ran
    /\ UNCHANGED <<current_playlist, current_index, is_random, timer_interval,
                   playlists, engineVars, widgetVars, timer_ms, settings_file>>

\* MainWindow._on_toggle_playlist
OnTogglePlaylist ==
    \/ /\ phase = "running"
       /\ get_playlist_count(pw_items) = 0
       /\ phase' = "running"
       /\ probe_env' = NoProcesses
       /\ last' = Last("toggle_empty", None, FALSE)
       /\ UNCHANGED <<pmVars, engineVars, widgetVars, timerVars, settings_file, picks, recent_wallpapers, refactored_recent, lock>>
    \/ StopPlaylist
    \/ \E r \in RandomIndexes(pw_random), ok \in BOOLEAN : StartPlaylist(r, ok)

\* MainWindow._on_next_wallpaper: the panel's next button, the tray's entry
\* and the timeout of playlist_timer all run it.
OnNextWallpaper ==
    /\ phase = "running"
    /\ IF get_playlist_count(pw_items) = 0
       THEN /\ Ran
            /\ UNCHANGED <<pmVars, engineVars, widgetVars, timerVars, settings_file>>
       ELSE \E r \in RandomIndexes(pw_random), ok \in BOOLEAN :
            LET g == get_next_wallpaper(CurPM, pw_random, r, settings_file)
                a == IF g.id # None
                     THEN apply_wallpaper(ok, g.id, ControlSettings, current_wallpaper,
                                          last_settings, pw_current, g.file, g.pm)
                     ELSE [ret |-> FALSE, current_wallpaper |-> current_wallpaper,
                           last_settings |-> last_settings, pw_current |-> pw_current,
                           file |-> g.file]
            IN /\ SetPM(g.pm)
               /\ current_wallpaper' = a.current_wallpaper
               /\ last_settings' = a.last_settings
               /\ pw_current' = a.pw_current
               /\ settings_file' = a.file
               /\ Ran
               /\ UNCHANGED <<pw_items, pw_random, timerVars>>

\* MainWindow._on_prev_wallpaper: nothing in random mode.
OnPrevWallpaper ==
    /\ phase = "running"
    /\ IF get_playlist_count(pw_items) = 0 \/ pw_random
       THEN /\ Ran
            /\ UNCHANGED <<pmVars, engineVars, widgetVars, timerVars, settings_file>>
       ELSE \E ok \in BOOLEAN :
            LET g == get_previous_wallpaper(CurPM, settings_file)
                a == IF g.id # None
                     THEN apply_wallpaper(ok, g.id, ControlSettings, current_wallpaper,
                                          last_settings, pw_current, g.file, g.pm)
                     ELSE [ret |-> FALSE, current_wallpaper |-> current_wallpaper,
                           last_settings |-> last_settings, pw_current |-> pw_current,
                           file |-> g.file]
            IN /\ SetPM(g.pm)
               /\ current_wallpaper' = a.current_wallpaper
               /\ last_settings' = a.last_settings
               /\ pw_current' = a.pw_current
               /\ settings_file' = a.file
               /\ Ran
               /\ UNCHANGED <<pw_items, pw_random, timerVars>>

\* MainWindow._on_timer_interval_changed(interval): clear_custom_timer and
\* save_settings both save; a running timer is restarted.
OnTimerIntervalChanged ==
    /\ phase = "running"
    /\ \E interval \in TimerIntervals :
         LET pm == [CurPM EXCEPT !.timer_interval = interval]
         IN /\ SetPM(pm)
            /\ settings_file' = save_settings(pm)
            /\ timer_ms' = IF is_playing THEN interval * 1000 ELSE timer_ms
            /\ timer_active' = IF is_playing THEN TRUE ELSE timer_active
            /\ Ran
            /\ UNCHANGED <<engineVars, widgetVars>>

\* MainWindow._on_play_mode_changed(is_random), emitted when the user
\* checks the other radio button of the panel.
OnPlayModeChanged ==
    /\ phase = "running"
    /\ LET pm == [CurPM EXCEPT !.is_random = ~pw_random]
       IN /\ pw_random' = ~pw_random
          /\ SetPM(pm)
          /\ settings_file' = save_settings(pm)
          /\ Ran
          /\ UNCHANGED <<engineVars, pw_items, pw_current, timerVars>>

\* MainWindow._on_wallpaper_selected / _on_playlist_wallpaper_selected:
\* apply the clicked wallpaper.
WallpaperSelected(w, ok) ==
    /\ phase = "running"
    /\ LET a == apply_wallpaper(ok, w, ControlSettings, current_wallpaper,
                                last_settings, pw_current, settings_file, CurPM)
       IN /\ current_wallpaper' = a.current_wallpaper
          /\ last_settings' = a.last_settings
          /\ pw_current' = a.pw_current
          /\ settings_file' = a.file
          /\ Ran
          /\ UNCHANGED <<pmVars, pw_items, pw_random, timerVars>>

OnWallpaperSelected == \E w \in Ids, ok \in BOOLEAN : WallpaperSelected(w, ok)

\* WallpaperController.set_volume: when the engine has a wallpaper, the
\* clamped volume is stored in its last_settings and _save_state is called.
set_volume(volume, cw, ls, f) ==
    IF cw = None THEN [ret |-> FALSE, last_settings |-> ls, file |-> f]
    ELSE LET nls == [ls EXCEPT !.keys = ls.keys \cup {"volume"},
                               !.volume = Max(0, Min(100, volume))]
         IN [ret |-> TRUE, last_settings |-> nls, file |-> save_state(f, cw, nls)]

\* MainWindow._on_volume_changed(volume).  The user drags the volume slider
\* and lets it go where it was: the handler's last run is the one for the
\* resting position, and what it stores replaces what the runs before it
\* stored.
OnVolumeChanged ==
    /\ phase = "running"
    /\ LET sv == set_volume(DEFAULT_VOLUME, current_wallpaper, last_settings,
                            settings_file)
       IN /\ last_settings' = sv.last_settings
          /\ settings_file' = sv.file
          /\ Ran
          /\ UNCHANGED <<pmVars, current_wallpaper, widgetVars, timerVars>>

-----------------------------------------------------------------------------
(* Process table seen at startup, and the probes of MainWindow *)

\* A renderer process is either absent, or was started as the application
\* starts it ("bg": ... --bg <id> ...), or by hand on the asset directory
\* ("dir": ... --dir <content root>/<id>).  A video tool plays a file under
\* <content root>/<id>/, and swww query reports such a path.
RendererForms == {"bg", "dir"}

\* A probe that raises or times out: psutil fails while the processes are
\* listed (for the renderer scan and the video scan alike), swww query does
\* not answer within its timeout or is not installed.
Failed == "error"

ProcessTables ==
    {t \in [renderer : {[form |-> None, id |-> None], [form |-> Failed, id |-> None]}
                       \cup [form : RendererForms, id : Ids],
            video : {None, Failed} \cup Ids,
            swww : {None, Failed} \cup Ids] :
        (t.renderer.form = Failed) <=> (t.video = Failed)}

\* Some probe of the table fails.
ProbeFailed(env) ==
    env.renderer.form = Failed \/ env.video = Failed \/ env.swww = Failed

\* _detect_running_wallpaper that finds no renderer
detect_running_wallpaper_none(env) == None

\* WallpaperEngine._detect_running_wallpaper: the argument after --bg of a
\* renderer process, reduced to its folder name.
detect_running_wallpaper(env) ==
    IF env.renderer.form = "bg" THEN env.renderer.id ELSE None

\* MainWindow._detect_from_linux_wallpaperengine_process: an identifier that
\* follows "/" or "--dir " on the renderer's command line.
detect_from_linux_wallpaperengine_process(env) ==
    IF env.renderer.form = "dir" THEN env.renderer.id ELSE None

\* MainWindow._detect_from_video_wallpaper_process; an exception is caught
\* and nothing is returned.
detect_from_video_wallpaper_process(env) ==
    IF env.video = Failed THEN None ELSE env.video

\* detect_from_swww that lets a failure through
detect_from_swww_uncaught(env) == env.swww

\* MainWindow._detect_from_swww; a timeout, a missing swww and any other
\* exception are caught and nothing is returned.
detect_from_swww(env) ==
    IF env.swww = Failed THEN None ELSE env.swww

\* MainWindow._is_swww_wallpaper_active
is_swww_wallpaper_active(env, w) == detect_from_swww(env) = w

\* MainWindow._verify_wallpaper_process_running: the identifier occurs on
\* the command line of a renderer or video process, or swww reports it.
verify_wallpaper_process_running(env, w) ==
    \/ env.renderer.form \in RendererForms /\ env.renderer.id = w
    \/ detect_from_video_wallpaper_process(env) = w
    \/ is_swww_wallpaper_active(env, w)

\* PlaylistManager.clear_current_wallpaper
clear_current_wallpaper(pm) == [pm EXCEPT !.current_index = 0, !.is_playing = FALSE]

\* MainWindow._detect_active_wallpaper with the engine's current wallpaper
\* cw and the manager's fields pm: the identifier it returns, what it
\* leaves in the engine and in the manager, and whether it saved.
detect_active_wallpaper(env, cw, pm) ==
    LET fromProcess == detect_from_linux_wallpaperengine_process(env)
        fromVideo == detect_from_video_wallpaper_process(env)
        fromSwww == detect_from_swww(env)
        playlistCurrent == get_current_wallpaper(pm.current_playlist, pm.current_index)
    IN IF cw # None /\ verify_wallpaper_process_running(env, cw)
       THEN [id |-> cw, current_wallpaper |-> cw, pm |-> pm, saved |-> FALSE]
       ELSE IF fromProcess # None
       THEN [id |-> fromProcess, current_wallpaper |-> None, pm |-> pm, saved |-> FALSE]
       ELSE IF fromVideo # None
       THEN [id |-> fromVideo, current_wallpaper |-> None, pm |-> pm, saved |-> FALSE]
       ELSE IF fromSwww # None
       THEN [id |-> fromSwww, current_wallpaper |-> None, pm |-> pm, saved |-> FALSE]
       ELSE IF playlistCurrent # None /\ verify_wallpaper_process_running(env, playlistCurrent)
       THEN [id |-> playlistCurrent, current_wallpaper |-> None, pm |-> pm, saved |-> FALSE]
       ELSE IF playlistCurrent # None
       THEN [id |-> None, current_wallpaper |-> None,
             pm |-> clear_current_wallpaper(pm), saved |-> TRUE]
       ELSE [id |-> None, current_wallpaper |-> None, pm |-> pm, saved |-> FALSE]

-----------------------------------------------------------------------------
(* Quit and startup *)

\* The tray's quit entry: the process ends, only the settings file stays.
Quit ==
    /\ phase = "running"
    /\ SetPM(PM(<<>>, 0, FALSE, FALSE, DEFAULT_TIMER_INTERVAL, NoPlaylists))
    /\ current_wallpaper' = None
    /\ last_settings' = NoSettings
    /\ pw_items' = <<>>
    /\ pw_current' = None
    /\ pw_random' = FALSE
    /\ timer_active' = FALSE
    /\ timer_ms' = 0
    /\ phase' = "off"
    /\ probe_env' = NoProcesses
    /\ last' = Last("quit", None, TRUE)
    /\ UNCHANGED <<settings_file, picks, recent_wallpapers, refactored_recent, lock>>

RECURSIVE LoadItems(_, _)
\* The loop of MainWindow._load_current_playlist over the saved playlist.
LoadItems(items, saved) ==
    IF saved = <<>> THEN items
    ELSE LoadItems(add_wallpaper_to_playlist(items, Head(saved)).items, Tail(saved))

\* MainWindow.__init__ up to the single-shot timer: PlaylistManager() loads
\* the file, WallpaperEngine() loads wallpaper_state and looks for a running
\* renderer, _load_current_playlist fills the panel from playlists["current"].
Construct ==
    /\ phase = "off"
    /\ \E env \in ProcessTables :
         LET loaded == load_settings(settings_file)
             eng == load_state(settings_file)
             live == detect_running_wallpaper(env)
             hasSaved == loaded.playlists.has_current /\ loaded.playlists.current # <<>>
             pm == IF hasSaved
                   THEN [loaded EXCEPT !.current_playlist = loaded.playlists.current]
                   ELSE loaded
         IN /\ SetPM(pm)
            /\ current_wallpaper' = IF live # None THEN live ELSE eng.current_wallpaper
            /\ last_settings' = eng.last_settings
            /\ settings_file' = IF live # None
                                THEN save_state(settings_file, live, eng.last_settings)
                                ELSE settings_file
            /\ pw_items' = IF hasSaved THEN LoadItems(<<>>, loaded.playlists.current) ELSE <<>>
            /\ pw_current' = None
            /\ pw_random' = FALSE
            /\ timer_active' = FALSE
            /\ timer_ms' = 0
            /\ probe_env' = env
            /\ phase' = "constructed"
            /\ last' = [Last("construct", None, TRUE) EXCEPT
                          !.snap_playing = loaded.is_playing,
                          !.snap_index = loaded.current_index,
                          !.snap_interval = loaded.timer_interval,
                          !.snap_wallpaper = eng.current_wallpaper]
            /\ UNCHANGED <<picks, recent_wallpapers, refactored_recent, lock>>

\* restore_mode without the branch that stops a playlist whose wallpaper is
\* not the detected one
restore_mode_no_conflict(id, playing, in_playlist) ==
    IF id = None THEN "none"
    ELSE IF playing /\ in_playlist THEN "playlist"
    ELSE IF playing THEN "none"
    ELSE "manual"

\* The branch MainWindow._restore_app_state takes on the identifier the
\* detection returned: none without one, otherwise by is_playing and by
\* whether the panel's items contain the identifier.
restore_mode(id, playing, in_playlist) ==
    IF id = None THEN "none"
    ELSE IF playing /\ in_playlist THEN "playlist"
    ELSE IF playing THEN "conflict"
    ELSE "manual"

\* MainWindow._restore_app_state, run once by the single-shot timer.
RestoreAppState ==
    /\ phase = "constructed"
    /\ LET pm0 == CurPM
           hasList == pm0.current_playlist # <<>>
           badIndex == hasList /\ (pm0.current_index >= Len(pm0.current_playlist)
                                   \/ pm0.current_index < 0)
           pm1 == IF badIndex THEN [pm0 EXCEPT !.current_index = 0] ELSE pm0
           \* set_random_mode checks the random radio; the toggle it causes
           \* runs _on_play_mode_changed, which saves
           modeSignal == hasList /\ pm1.is_random /\ ~pw_random
           wasPlaying == hasList /\ pm1.is_playing
           shown1 == IF wasPlaying
                     THEN get_current_wallpaper(pm1.current_playlist, pm1.current_index)
                     ELSE None
           d == detect_active_wallpaper(probe_env, current_wallpaper, pm1)
           inPlaylist == d.id \in Range(pw_items)
           mode == restore_mode(d.id, d.pm.is_playing, inPlaylist)
           pm2 == IF mode = "playlist"
                  THEN [d.pm EXCEPT !.current_index = IndexOf(pw_items, d.id)]
                  ELSE IF mode \in {"conflict", "manual"}
                  THEN [d.pm EXCEPT !.is_playing = FALSE]
                  ELSE d.pm
           saved == badIndex \/ modeSignal \/ d.saved \/ mode # "none"
       IN /\ SetPM(pm2)
          /\ current_wallpaper' = d.current_wallpaper
          /\ pw_random' = IF hasList THEN pm1.is_random ELSE pw_random
          /\ pw_current' = IF d.id # None THEN d.id
                           ELSE IF shown1 # None THEN shown1 ELSE pw_current
          /\ timer_active' = IF mode = "playlist" THEN TRUE
                             ELSE IF mode \in {"conflict", "manual"} THEN FALSE
                             ELSE IF wasPlaying THEN TRUE ELSE timer_active
          /\ timer_ms' = IF mode = "playlist" \/ wasPlaying
                         THEN pm1.timer_interval * 1000 ELSE timer_ms
          /\ settings_file' = IF saved THEN save_settings(pm2) ELSE settings_file
          /\ phase' = "running"
          /\ probe_env' = NoProcesses
          /\ last' = [last EXCEPT !.op = "restore", !.id = d.id, !.ret = (d.id # None),
                                   !.probe_failed = ProbeFailed(probe_env)]
          /\ UNCHANGED <<last_settings, pw_items, picks, recent_wallpapers, refactored_recent, lock>>

Next ==
    \/ OnAddToPlaylistRequested
    \/ OnAddCurrentToPlaylist
    \/ OnRemoveFromPlaylist
    \/ OnClearPlaylist
    \/ OnTogglePlaylist
    \/ OnNextWallpaper
    \/ OnPrevWallpaper
    \/ OnTimerIntervalChanged
    \/ OnPlayModeChanged
    \/ OnWallpaperSelected
    \/ OnVolumeChanged
    \/ Quit
    \/ Construct
    \/ RestoreAppState

Spec == Init /\ [][Next]_vars

-----------------------------------------------------------------------------
(* PlaylistManager called directly: its methods in any order, with any
   argument, from a freshly constructed manager *)

InitPM ==
    /\ current_playlist = <<>>
    /\ current_index = 0
    /\ is_playing = FALSE
    /\ is_random = FALSE
    /\ timer_interval = DEFAULT_TIMER_INTERVAL
    /\ playlists = NoPlaylists
    /\ current_wallpaper = None
    /\ last_settings = NoSettings
    /\ pw_items = <<>>
    /\ pw_current = None
    /\ pw_random = FALSE
    /\ timer_active = FALSE
    /\ timer_ms = 0
    /\ settings_file = NoFile
    /\ probe_env = NoProcesses
    /\ phase = "api"
    /\ last = Last("init", None, FALSE)
    /\ picks = <<>>
    /\ recent_wallpapers = <<>>
    /\ refactored_recent = <<>>
    /\ lock = NoLock

\* What a call leaves alone besides the manager's fields and the file.
Called(op, id, ret) ==
    /\ last' = Last(op, id, ret)
    /\ UNCHANGED <<engineVars, widgetVars, timerVars, probe_env, phase, picks, recent_wallpapers, refactored_recent, lock>>

\* add_to_current_playlist(w), also with the empty string and with an
\* identifier the playlist already has.
AddCall ==
    /\ phase = "api"
    /\ \E w \in Ids \cup {""} :
         /\ Len(current_playlist) < MaxCallLen \/ w \in Range(current_playlist) \/ w = ""
         /\ LET a == add_to_current_playlist(current_playlist, w)
            IN /\ current_playlist' = a.playlist
               /\ Called("add", w, a.ret)
               /\ UNCHANGED <<current_index, is_playing, is_random, timer_interval,
                              playlists, settings_file>>

\* remove_from_current_playlist(index), also with indexes out of range.
RemoveAt(index) ==
    /\ phase = "api"
    /\ LET rm == remove_from_current_playlist(current_playlist, current_index, index)
       IN /\ current_playlist' = rm.playlist
          /\ current_index' = rm.index
          /\ Called("remove", None, rm.ret)
          /\ UNCHANGED <<is_playing, is_random, timer_interval, playlists,
                         settings_file>>

\* remove_from_current_playlist(index) with every index from one before the
\* first to one past the last
RemoveCall == \E index \in -1..Len(current_playlist) : RemoveAt(index)

\* clear_current_playlist()
ClearCall ==
    /\ phase = "api"
    /\ current_playlist' = <<>>
    /\ current_index' = 0
    /\ is_playing' = FALSE
    /\ Called("clear", None, TRUE)
    /\ UNCHANGED <<is_random, timer_interval, playlists, settings_file>>

\* get_next_wallpaper(random_mode)
NextCall ==
    /\ phase = "api"
    /\ \E random_mode \in BOOLEAN :
       \E r \in RandomIndexes(random_mode) :
         LET g == get_next_wallpaper(CurPM, random_mode, r, settings_file)
         IN /\ SetPM(g.pm)
            /\ settings_file' = g.file
            /\ Called(IF random_mode THEN "next_random" ELSE "next", g.id, g.id # None)

\* get_previous_wallpaper()
PrevCall ==
    /\ phase = "api"
    /\ LET g == get_previous_wallpaper(CurPM, settings_file)
       IN /\ SetPM(g.pm)
          /\ settings_file' = g.file
          /\ Called("prev", g.id, g.id # None)

NextPM ==
    \/ AddCall
    \/ RemoveCall
    \/ ClearCall
    \/ NextCall
    \/ PrevCall

SpecPM == InitPM /\ [][NextPM]_vars

-----------------------------------------------------------------------------
(* A run of random advances over a playlist of ShuffleLen wallpapers *)

\* Size of the shuffled playlist.
ShuffleLen == 6

\* How many earlier picks a pick is compared with.
RecentWindow == 5

ShuffleIds == <<"A", "B", "C", "D", "E", "F", "G", "H">>

ShufflePlaylist == SubSeq(ShuffleIds, 1, ShuffleLen)

\* The last n elements of s
LastN(s, n) == SubSeq(s, Max(1, Len(s) - n + 1), Len(s))

InitRandom ==
    /\ current_playlist = ShufflePlaylist
    /\ current_index = 0
    /\ is_playing = FALSE
    /\ is_random = TRUE
    /\ timer_interval = DEFAULT_TIMER_INTERVAL
    /\ playlists = [has_current |-> TRUE, current |-> ShufflePlaylist]
    /\ current_wallpaper = None
    /\ last_settings = NoSettings
    /\ pw_items = ShufflePlaylist
    /\ pw_current = None
    /\ pw_random = TRUE
    /\ timer_active = FALSE
    /\ timer_ms = 0
    /\ settings_file = save_settings(PM(ShufflePlaylist, 0, FALSE, TRUE,
                                        DEFAULT_TIMER_INTERVAL,
                                        [has_current |-> TRUE, current |-> ShufflePlaylist]))
    /\ probe_env = NoProcesses
    /\ phase = "shuffle"
    /\ last = Last("init", None, FALSE)
    /\ picks = <<>>
    /\ recent_wallpapers = <<>>
    /\ refactored_recent = <<>>
    /\ lock = NoLock

\* get_next_wallpaper(True), as the play button, the next button and the
\* timer call it in random mode; picks keeps the identifiers returned, the
\* newest last, as far back as a pick is compared.
RandomAdvance ==
    /\ phase = "shuffle"
    /\ \E r \in RandomIndexes(TRUE) :
         LET g == get_next_wallpaper(CurPM, TRUE, r, settings_file)
         IN /\ SetPM(g.pm)
            /\ settings_file' = g.file
            /\ picks' = LastN(Append(picks, g.id), RecentWindow + 1)
            /\ last' = Last("next", g.id, g.id # None)
            /\ UNCHANGED <<engineVars, widgetVars, timerVars, probe_env, phase,
                           recent_wallpapers, refactored_recent, lock>>

NextRandom == RandomAdvance

SpecRandom == InitRandom /\ [][NextRandom]_vars

-----------------------------------------------------------------------------
(* Properties *)

\* The settings file holds the manager's fields as they are in memory.
PersistedEqualsMemory ==
    /\ settings_file.exists
    /\ settings_file.has_pm
    /\ settings_file.current_playlist = current_playlist
    /\ settings_file.current_index = current_index
    /\ settings_file.is_playing = is_playing
    /\ settings_file.is_random = is_random
    /\ settings_file.timer_interval = timer_interval

\* Two contents of the settings file from which both managers load the same.
SameSnapshot(f, g) ==
    /\ load_settings(f) = load_settings(g)
    /\ load_state(f) = load_state(g)

\* C1: after any sequence of add, remove, advance, retreat and play/stop
\* from an empty stopped playlist, the cursor is a valid index of a
\* non-empty playlist and an empty playlist is not playing.
C1_CursorInvariant ==
    /\ current_playlist # <<>> =>
         0 <= current_index /\ current_index < Len(current_playlist)
    /\ current_playlist = <<>> => ~is_playing

\* C2: when the startup reconciliation finds an identifier, is_playing ends
\* as (persisted is_playing and the identifier is in the playlist), the
\* timer runs exactly when is_playing holds, and the settings file holds the
\* resulting is_playing.
C2_ReconciledPlaying ==
    last.op = "restore" /\ last.id # None =>
        /\ is_playing = (last.snap_playing /\ last.id \in Range(current_playlist))
        /\ timer_active = is_playing
        /\ settings_file.has_pm
        /\ settings_file.is_playing = is_playing

\* C2 witness: persisted is_playing, playlist A, B and evidence for C; the
\* reconciliation stopped the playlist.
C2_Witness ==
    /\ last.op = "restore"
    /\ last.id = "C"
    /\ last.snap_playing
    /\ current_playlist = <<"A", "B">>
    /\ ~is_playing
    /\ ~timer_active
    /\ settings_file.is_playing = FALSE

\* C3: a startup that loaded a current wallpaper from the settings file and
\* finds no renderer, no video tool and nothing from swww leaves the engine
\* and the playlist panel without a current wallpaper.
C3_NoEvidenceNoCurrent ==
    [][(/\ RestoreAppState
        /\ settings_file.has_ws
        /\ settings_file.ws_current_wallpaper # None
        /\ probe_env = NoProcesses)
       => current_wallpaper' = None /\ pw_current' = None]_vars

\* C4: after a successful apply of w from the window, the engine holds w and
\* the settings of the controls, and so does wallpaper_state in the
\* settings file.
C4_ApplyPersistsWallpaperState ==
    [][\A w \in Ids :
         WallpaperSelected(w, TRUE) =>
            /\ current_wallpaper' = w
            /\ last_settings' = ControlSettings
            /\ settings_file'.has_ws
            /\ settings_file'.ws_current_wallpaper = w
            /\ settings_file'.ws_last_settings = ControlSettings]_vars

\* C5: after every playlist operation that changed the manager's fields,
\* the settings file holds the playlist, the cursor, is_playing, is_random
\* and the timer interval as they are in memory.
C5_MutationsPersisted ==
    [][(/\ \/ OnAddToPlaylistRequested
           \/ OnAddCurrentToPlaylist
           \/ OnRemoveFromPlaylist
           \/ OnClearPlaylist
           \/ OnTogglePlaylist
           \/ OnNextWallpaper
           \/ OnPrevWallpaper
           \/ OnPlayModeChanged
           \/ OnTimerIntervalChanged
        /\ pmVars' # pmVars)
       => PersistedEqualsMemory']_vars

\* C6: whenever the startup reconciliation finds an identifier, the engine's
\* current wallpaper and wallpaper_state in the settings file are that
\* identifier afterwards.
C6_DetectedWrittenBack ==
    last.op = "restore" /\ last.id # None =>
        /\ current_wallpaper = last.id
        /\ settings_file.has_ws
        /\ settings_file.ws_current_wallpaper = last.id

\* C7: with persisted is_playing and a detected identifier that is in the
\* playlist, the reconciliation leaves the cursor on the identifier,
\* is_playing true and the timer running at the persisted interval.
C7_PlaylistModeCursor ==
    (/\ last.op = "restore"
     /\ last.id # None
     /\ last.snap_playing
     /\ last.id \in Range(current_playlist))
    => /\ 0 <= current_index /\ current_index < Len(current_playlist)
       /\ current_playlist[current_index + 1] = last.id
       /\ is_playing
       /\ timer_active
       /\ timer_ms = last.snap_interval * 1000

\* C7 witness: the persisted cursor was on A, B was detected, and the
\* cursor moved to B; the timer runs at the persisted 30 seconds.
C7_Witness ==
    /\ last.op = "restore"
    /\ last.id = "B"
    /\ last.snap_playing
    /\ last.snap_index = 0
    /\ last.snap_interval = ALT_TIMER_INTERVAL
    /\ current_playlist = <<"A", "B">>
    /\ current_index = 1
    /\ is_playing
    /\ timer_active
    /\ timer_ms = ALT_TIMER_INTERVAL * 1000

\* C8: what the playlist manager saves loads back as the playlist fields
\* and the engine's current wallpaper and settings in memory; and loading
\* the settings file and saving it again, by the playlist manager or by the
\* engine, leaves a file that loads the same.
C8_SaveLoadRoundTrip ==
    /\ phase = "running" =>
         LET f == save_settings(CurPM)
         IN /\ load_settings(f) = CurPM
            /\ load_state(f) = [current_wallpaper |-> current_wallpaper,
                                last_settings |-> last_settings]
    /\ settings_file.exists =>
         LET pm == load_settings(settings_file)
             eng == load_state(settings_file)
         IN /\ SameSnapshot(save_settings(pm), settings_file)
            /\ SameSnapshot(save_state(settings_file, eng.current_wallpaper,
                                       eng.last_settings), settings_file)

\* C9: the playlist never holds an identifier twice, and adding an
\* identifier it already holds returns False and changes neither the
\* playlist nor the cursor.
C9_AddKeepsUnique ==
    [][/\ NoDuplicates(current_playlist')
       /\ (last'.op = "add" /\ last'.id \in Range(current_playlist))
          => /\ ~last'.ret
             /\ current_playlist' = current_playlist
             /\ current_index' = current_index]_vars

\* C9 witness: an add of an identifier of a full playlist was refused while
\* the cursor was on the second entry.
C9_Witness ==
    /\ last.op = "add"
    /\ ~last.ret
    /\ last.id \in Range(current_playlist)
    /\ Len(current_playlist) = MaxCallLen
    /\ current_index = 1

\* C10: in a run of random advances over a duplicate-free playlist of six
\* or more, no identifier returned is among the five returned before it.
C10_NoRecentRepeat ==
    Len(picks) >= 2 =>
        picks[Len(picks)] \notin
            Range(LastN(SubSeq(picks, 1, Len(picks) - 1), RecentWindow))

\* C11: a sequential advance over a non-empty playlist of length n moves
\* the cursor to (cursor + 1) mod n, a retreat to (cursor - 1) mod n, and
\* each returns the identifier under the new cursor; on an empty playlist
\* both return nothing and change nothing.
C11_SequentialWrapAround ==
    [][/\ (last'.op = "next" /\ current_playlist # <<>>)
          => /\ current_index' = (current_index + 1) % Len(current_playlist)
             /\ current_playlist' = current_playlist
             /\ last'.id = current_playlist[current_index' + 1]
       /\ (last'.op = "prev" /\ current_playlist # <<>>)
          => /\ current_index' = (current_index - 1) % Len(current_playlist)
             /\ current_playlist' = current_playlist
             /\ last'.id = current_playlist[current_index' + 1]
       /\ (last'.op \in {"next", "prev"} /\ current_playlist = <<>>)
          => /\ last'.id = None
             /\ UNCHANGED <<pmVars, settings_file>>]_vars

\* C11 witness: a retreat over A, B, C returned C and left the cursor on
\* the last entry.
C11_Witness ==
    /\ last.op = "prev"
    /\ last.id = "C"
    /\ current_playlist = <<"A", "B", "C">>
    /\ current_index = 2

\* C12: on a non-empty playlist, play from the stopped state advances the
\* cursor exactly once, launches the wallpaper under the new cursor, starts
\* the timer and sets is_playing; the following stop stops the timer and
\* clears is_playing, leaving the cursor and the playlist as they are.
C12_TogglePlay ==
    [][/\ \A r \in 0..(Len(current_playlist) - 1), ok \in BOOLEAN :
            (StartPlaylist(r, ok) /\ current_playlist # <<>>)
            => /\ current_index' = IF pw_random THEN r
                                   ELSE (current_index + 1) % Len(current_playlist)
               /\ current_playlist' = current_playlist
               /\ ok => current_wallpaper' = current_playlist[current_index' + 1]
               /\ timer_active'
               /\ timer_ms' = timer_interval * 1000
               /\ is_playing'
       /\ (StopPlaylist /\ current_playlist # <<>>)
          => /\ ~timer_active'
             /\ ~is_playing'
             /\ current_index' = current_index
             /\ current_playlist' = current_playlist]_vars

\* C12 witness: the playlist X was played, which launched X, and stopped
\* again; the cursor is on X.
C12_Witness ==
    /\ phase = "running"
    /\ last.op = "handler"
    /\ current_playlist = <<"A">>
    /\ current_index = 0
    /\ current_wallpaper = "A"
    /\ ~is_playing
    /\ ~timer_active
    /\ timer_ms = DEFAULT_TIMER_INTERVAL * 1000

\* C13: play on an empty playlist does nothing: is_playing stays false, the
\* cursor stays, no timer is started and no wallpaper is launched.
C13_ToggleEmptyNoOp ==
    [][(OnTogglePlaylist /\ current_playlist = <<>>)
       => /\ ~is_playing => ~is_playing'
          /\ UNCHANGED <<pmVars, engineVars, widgetVars, timerVars, settings_file>>]_vars

\* C13 witness: play was pressed on the empty stopped playlist of a first
\* start.
C13_Witness ==
    /\ last.op = "toggle_empty"
    /\ current_playlist = <<>>
    /\ current_index = 0
    /\ ~is_playing
    /\ ~timer_active
    /\ current_wallpaper = None

\* The three ways a startup ends.
PlaylistResumed ==
    /\ last.id \in Ids
    /\ is_playing
    /\ timer_active
    /\ get_current_wallpaper(current_playlist, current_index) = last.id
    /\ pw_current = last.id

ManualDetected ==
    /\ last.id \in Ids
    /\ ~is_playing
    /\ ~timer_active
    /\ pw_current = last.id

NothingDetected == last.id = None

\* C14: the startup reconciliation always runs to its end, with exactly one
\* of three outcomes: the playlist resumed at the detected wallpaper, a
\* manual wallpaper detected with the playlist paused, or nothing detected;
\* this for every settings file and every result of the probes, failed and
\* timed-out probes included, and no failure of a probe comes out of it.
C14_ThreeOutcomes ==
    /\ phase = "constructed" => ENABLED RestoreAppState
    /\ last.op = "restore" =>
         /\ phase = "running"
         /\ PlaylistResumed \/ ManualDetected \/ NothingDetected
         /\ ~(PlaylistResumed /\ ManualDetected)
         /\ ~(PlaylistResumed /\ NothingDetected)
         /\ ~(ManualDetected /\ NothingDetected)
         /\ pw_current # Failed
         /\ current_wallpaper # Failed

\* C14 witness: swww did not answer while a video tool was playing B next
\* to a persisted playing playlist without B; the outcome is a manual
\* wallpaper with the playlist paused.
C14_Witness ==
    /\ last.op = "restore"
    /\ last.probe_failed
    /\ last.snap_playing
    /\ last.id = "B"
    /\ current_playlist = <<"A">>
    /\ ManualDetected

-----------------------------------------------------------------------------
(* WallpaperEngine and WallpaperController called directly: launches and
   dynamic adjustments in any order.  probe_env holds the painter processes
   the application started and that are still alive, oldest first. *)

\* Identifiers with an asset directory under STEAM_WORKSHOP_PATH; "C" has none.
Installed == {"A", "B"}

\* validate_wallpaper_path that accepts every identifier
validate_wallpaper_path_any(w) == TRUE

\* utils.validate_wallpaper_path
validate_wallpaper_path(w) == w \in Installed

\* A process of the table: the program it runs and what it paints.
Process(tool, arg) == [tool |-> tool, arg |-> arg]

RECURSIVE pkill(_, _)
\* pkill -f <pattern> for each pattern of tools, the kill succeeding.
pkill(procs, tools) ==
    IF procs = <<>> THEN <<>>
    ELSE LET rest == pkill(Tail(procs), tools) IN
         IF Head(procs).tool \in tools THEN rest ELSE <<Head(procs)>> \o rest

\* utils.kill_existing_wallpapers: pkill -f linux-wallpaperengine
kill_existing_wallpapers(procs) == pkill(procs, {"linux-wallpaperengine"})

\* WallpaperController._stop_existing_wallpaper_processes: the renderer,
\* swww and the video players are stopped.
stop_existing_wallpaper_processes(procs) ==
    pkill(procs, {"linux-wallpaperengine", "swww", "mpv"})

\* What a step did: the call, its argument, its result, whether the renderer
\* binary existed, how many processes it terminated, whether it started one.
Step(op, id, ret, binary, killed, spawned) ==
    [op |-> op, id |-> id, ret |-> ret, binary |-> binary, killed |-> killed,
     spawned |-> spawned]

\* The keyword arguments of a call: the keys of given taken from it, the
\* others at the defaults of WallpaperEngine.apply_wallpaper.
Kwargs(given) ==
    [keys |-> SettingKeys,
     screen |-> IF "screen" \in given.keys THEN given.screen ELSE "eDP-1",
     volume |-> IF "volume" \in given.keys THEN given.volume ELSE DEFAULT_VOLUME,
     fps |-> IF "fps" \in given.keys THEN given.fps ELSE DEFAULT_FPS,
     noautomute |-> "noautomute" \in given.keys /\ given.noautomute,
     no_audio_processing |-> "no_audio_processing" \in given.keys
                             /\ given.no_audio_processing,
     disable_mouse |-> "disable_mouse" \in given.keys /\ given.disable_mouse]

\* WallpaperEngine.apply_wallpaper with the process table.  binary: the
\* renderer binary exists; popen: Popen starts the process (it raises
\* FileNotFoundError or PermissionError otherwise, after the kill).
engine_launch(w, s, binary, popen, cw, ls, f, procs) ==
    IF w = "" \/ ~validate_wallpaper_path(w) \/ ~binary
    THEN [ret |-> FALSE, current_wallpaper |-> cw, last_settings |-> ls,
          file |-> f, procs |-> procs, killed |-> 0, spawned |-> FALSE]
    ELSE LET left == kill_existing_wallpapers(procs)
             killed == Len(procs) - Len(left) IN
         IF popen
         THEN [ret |-> TRUE, current_wallpaper |-> w, last_settings |-> s,
               file |-> save_state(f, w, s),
               procs |-> Append(left, Process("linux-wallpaperengine", w)),
               killed |-> killed, spawned |-> TRUE]
         ELSE [ret |-> FALSE, current_wallpaper |-> cw, last_settings |-> ls,
               file |-> f, procs |-> left, killed |-> killed, spawned |-> FALSE]

\* WallpaperEngine.restart_with_new_settings(volume=v)
restart_with_new_settings(v, binary, popen, cw, ls, f, procs) ==
    IF cw = None
    THEN [ret |-> FALSE, current_wallpaper |-> cw, last_settings |-> ls,
          file |-> f, procs |-> procs, killed |-> 0, spawned |-> FALSE]
    ELSE engine_launch(cw,
                       Kwargs([ls EXCEPT !.keys = ls.keys \cup {"volume"},
                                         !.volume = v]),
                       binary, popen, cw, ls, f, procs)

InitEngine ==
    /\ current_playlist = <<>>
    /\ current_index = 0
    /\ is_playing = FALSE
    /\ is_random = FALSE
    /\ timer_interval = DEFAULT_TIMER_INTERVAL
    /\ playlists = NoPlaylists
    /\ current_wallpaper = None
    /\ last_settings = NoSettings
    /\ pw_items = <<>>
    /\ pw_current = None
    /\ pw_random = FALSE
    /\ timer_active = FALSE
    /\ timer_ms = 0
    /\ settings_file = NoFile
    /\ probe_env = <<>>
    /\ phase = "engine"
    /\ last = Step("init", None, FALSE, TRUE, 0, FALSE)
    /\ picks = <<>>
    /\ recent_wallpapers = <<>>
    /\ refactored_recent = <<>>
    /\ lock = NoLock

\* What a call of the engine or the controller leaves alone.
EngineCalled ==
    /\ phase = "engine"
    /\ UNCHANGED <<pmVars, widgetVars, timerVars, phase, picks, recent_wallpapers, refactored_recent, lock>>

\* engine.apply_wallpaper(w) with the defaults of its keyword arguments; w
\* may be empty or without asset directory, the binary may be missing.
LaunchCall ==
    \E w \in Ids \cup {""}, binary \in BOOLEAN, popen \in BOOLEAN :
        LET r == engine_launch(w, Kwargs(NoSettings), binary, popen,
                               current_wallpaper, last_settings, settings_file,
                               probe_env)
        IN /\ EngineCalled
           /\ current_wallpaper' = r.current_wallpaper
           /\ last_settings' = r.last_settings
           /\ settings_file' = r.file
           /\ probe_env' = r.procs
           /\ last' = Step("apply_wallpaper", w, r.ret, binary, r.killed, r.spawned)

\* How apply_media_wallpaper ends after the stop of the existing processes:
\* a swww daemon is started and paints the image, mpv (or mpvpaper) is
\* started on the video, the desktop's own setting is changed, or no method
\* works.
MediaRoutes == {"swww", "mpv", "desktop", "fail"}

\* WallpaperController.apply_media_wallpaper(media_path, screen).  exists:
\* the media file is there; otherwise nothing is stopped.
apply_media_wallpaper(exists, route, procs) ==
    LET left == IF exists THEN stop_existing_wallpaper_processes(procs) ELSE procs
        started == exists /\ route \in {"swww", "mpv"}
    IN [ret |-> exists /\ route # "fail",
        procs |-> IF started THEN Append(left, Process(route, "media")) ELSE left,
        killed |-> Len(procs) - Len(left),
        spawned |-> started]

\* WallpaperController.apply_media_wallpaper called directly
MediaCall ==
    \E exists \in BOOLEAN, route \in MediaRoutes :
        LET r == apply_media_wallpaper(exists, route, probe_env)
        IN /\ EngineCalled
           /\ probe_env' = r.procs
           /\ last' = Step("apply_media_wallpaper", "media", r.ret, TRUE,
                           r.killed, r.spawned)
           /\ UNCHANGED <<engineVars, settings_file>>

\* Identifiers of custom media of the gallery: those that start with
\* custom_ or gif_.
MediaIds == {"custom_clip", "gif_loop"}

\* MainWindow.apply_wallpaper(wallpaper_id) from the gallery: a custom
\* media goes to _apply_custom_media_wallpaper and the controller, any
\* other identifier to the engine with the values of the controls; on
\* success the panel shows the identifier and add_to_recent saves the
\* manager's fields.
GuiApplyCall ==
    \E w \in Ids \cup MediaIds, binary \in BOOLEAN, popen \in BOOLEAN,
       exists \in BOOLEAN, route \in MediaRoutes :
        LET media == apply_media_wallpaper(exists, route, probe_env)
            e == engine_launch(w, ControlSettings, binary, popen,
                               current_wallpaper, last_settings, settings_file,
                               probe_env)
            r == IF w \in MediaIds
                 THEN [ret |-> media.ret, current_wallpaper |-> current_wallpaper,
                       last_settings |-> last_settings, file |-> settings_file,
                       procs |-> media.procs, killed |-> media.killed,
                       spawned |-> media.spawned]
                 ELSE e
        IN /\ phase = "engine"
           /\ current_wallpaper' = r.current_wallpaper
           /\ last_settings' = r.last_settings
           /\ probe_env' = r.procs
           /\ pw_current' = IF r.ret THEN w ELSE pw_current
           /\ settings_file' = IF r.ret THEN save_settings(CurPM) ELSE r.file
           /\ last' = Step("gui_apply", w, r.ret, binary, r.killed, r.spawned)
           /\ UNCHANGED <<pmVars, pw_items, pw_random, timerVars, phase, picks,
                          recent_wallpapers, refactored_recent, lock>>

\* The values the callers pass: below, inside and above the accepted range.
VolumeInputs == {0, DEFAULT_VOLUME, 150}
FpsInputs == {5, DEFAULT_FPS}

\* A controller call that stores one setting: when the engine has a
\* wallpaper, last_settings[key] = value and _save_state.
store_setting(ls, cw, f, key, value) ==
    IF cw = None THEN [ret |-> FALSE, last_settings |-> ls, file |-> f]
    ELSE LET nls == [ls EXCEPT !.keys = ls.keys \cup {key}, ![key] = value]
         IN [ret |-> TRUE, last_settings |-> nls, file |-> save_state(f, cw, nls)]

\* The part of a storing call that is the same for all of them.
Stored(op, r) ==
    /\ EngineCalled
    /\ last_settings' = r.last_settings
    /\ settings_file' = r.file
    /\ last' = Step(op, None, r.ret, TRUE, 0, FALSE)
    /\ UNCHANGED <<current_wallpaper, probe_env>>

\* WallpaperController.set_volume(volume)
SetVolumeCall ==
    \E v \in VolumeInputs :
        Stored("set_volume",
               set_volume(v, current_wallpaper, last_settings, settings_file))

\* WallpaperController.set_fps(fps)
SetFpsCall ==
    \E fps \in FpsInputs :
        Stored("set_fps",
               store_setting(last_settings, current_wallpaper, settings_file,
                             "fps", Max(10, Min(144, fps))))

\* WallpaperController.toggle_mouse
ToggleMouseCall ==
    Stored("toggle_mouse",
           store_setting(last_settings, current_wallpaper, settings_file,
                         "disable_mouse",
                         ~("disable_mouse" \in last_settings.keys
                           /\ last_settings.disable_mouse)))

\* WallpaperController.toggle_audio_processing
ToggleAudioProcessingCall ==
    Stored("toggle_audio_processing",
           store_setting(last_settings, current_wallpaper, settings_file,
                         "no_audio_processing",
                         ~("no_audio_processing" \in last_settings.keys
                           /\ last_settings.no_audio_processing)))

\* WallpaperController.toggle_auto_mute
ToggleAutoMuteCall ==
    Stored("toggle_auto_mute",
           store_setting(last_settings, current_wallpaper, settings_file,
                         "noautomute",
                         ~("noautomute" \in last_settings.keys
                           /\ last_settings.noautomute)))

\* WallpaperController.toggle_silent: the volume goes to 0, or back to 50,
\* through WallpaperEngine.restart_with_new_settings.
ToggleSilentCall ==
    \E binary \in BOOLEAN, popen \in BOOLEAN :
        LET current_volume == IF "volume" \in last_settings.keys
                              THEN last_settings.volume ELSE DEFAULT_VOLUME
            new_volume == IF current_volume > 0 THEN 0 ELSE DEFAULT_VOLUME
            r == restart_with_new_settings(new_volume, binary, popen,
                                           current_wallpaper, last_settings,
                                           settings_file, probe_env)
        IN /\ EngineCalled
           /\ current_wallpaper' = r.current_wallpaper
           /\ last_settings' = r.last_settings
           /\ settings_file' = r.file
           /\ probe_env' = r.procs
           /\ last' = Step("toggle_silent", None, r.ret, binary, r.killed, r.spawned)

NextEngine ==
    \/ LaunchCall
    \/ MediaCall
    \/ SetVolumeCall
    \/ SetFpsCall
    \/ ToggleMouseCall
    \/ ToggleAudioProcessingCall
    \/ ToggleAutoMuteCall
    \/ ToggleSilentCall

SpecEngine == InitEngine /\ [][NextEngine]_vars

\* The gallery alone: wallpapers and custom media applied in any order.
NextGui == GuiApplyCall

SpecGui == InitEngine /\ [][NextGui]_vars

\* C15: a launch with an empty identifier, an identifier without asset
\* directory or a missing renderer binary returns False, terminates no
\* process and leaves the current wallpaper, the render settings and the
\* settings file as they were.
C15_RejectedLaunchChangesNothing ==
    [][(/\ last'.op = "apply_wallpaper"
        /\ (last'.id = "" \/ last'.id \notin Installed \/ ~last'.binary))
       => /\ ~last'.ret
          /\ last'.killed = 0
          /\ ~last'.spawned
          /\ UNCHANGED <<probe_env, current_wallpaper, last_settings,
                         settings_file>>]_vars

\* C15 witness: A is painted by a running renderer and recorded in the
\* file, and a launch of C, which has no asset directory, was refused.
C15_Witness ==
    /\ phase = "engine"
    /\ last.op = "apply_wallpaper"
    /\ last.id = "C"
    /\ ~last.ret
    /\ current_wallpaper = "A"
    /\ probe_env = <<Process("linux-wallpaperengine", "A")>>
    /\ settings_file.ws_current_wallpaper = "A"

AdjustmentCalls ==
    {"set_volume", "set_fps", "toggle_silent", "toggle_auto_mute",
     "toggle_mouse", "toggle_audio_processing"}

\* C16: no dynamic adjustment (volume, fps, silent, auto-mute, mouse, audio
\* processing) terminates or starts a process; and with no current
\* wallpaper each returns False and changes nothing.
C16_AdjustmentsNeverRelaunch ==
    [][last'.op \in AdjustmentCalls
       => /\ last'.killed = 0
          /\ ~last'.spawned
          /\ probe_env' = probe_env
          /\ current_wallpaper = None
             => /\ ~last'.ret
                /\ UNCHANGED <<current_wallpaper, last_settings, settings_file>>]_vars

\* C20: after any sequence of launches by engine.apply_wallpaper and
\* WallpaperController.apply_media_wallpaper, at most one painter process
\* started by the application is alive.
C20_AtMostOnePainter ==
    phase = "engine" => Len(probe_env) <= 1

-----------------------------------------------------------------------------
(* The recency list: add_to_recent of PlaylistManager and Add_To_Recent of
   core_refactored, called directly with any identifier, from a list that
   earlier calls have left. *)

\* Entries the recency list keeps.
MaxRecent == 20

\* Calls followed from the starting list.
MaxRecentCalls == 2

\* Identifiers w1, w2, ...: two more than the list keeps.
RecentIds == {"w" \o ToString(i) : i \in 1..(MaxRecent + 2)}

RECURSIVE Remove(_, _)
\* list.remove(x): s without the first occurrence of x
Remove(s, x) ==
    IF s = <<>> THEN <<>>
    ELSE IF Head(s) = x THEN Tail(s) ELSE <<Head(s)>> \o Remove(Tail(s), x)

\* The first n elements of s
FirstN(s, n) == SubSeq(s, 1, Min(n, Len(s)))

\* PlaylistManager.add_to_recent
add_to_recent(recent, w) ==
    IF w = "" THEN recent
    ELSE LET removed == IF w \in Range(recent) THEN Remove(recent, w) ELSE recent
             appended == Append(removed, w)
         IN IF Len(appended) > MaxRecent THEN LastN(appended, MaxRecent)
            ELSE appended

\* Flow.PlaylistManager.Add_To_Recent of core_refactored
Add_To_Recent(recent, w) ==
    LET removed == IF w \in Range(recent) THEN Remove(recent, w) ELSE recent
        inserted == <<w>> \o removed
    IN IF Len(inserted) > MaxRecent THEN FirstN(inserted, MaxRecent)
       ELSE inserted

\* The list after w1 .. wk were recorded in this order by add_to_recent.
Recorded(k) == [i \in 1..k |-> "w" \o ToString(i)]

\* The same after Add_To_Recent: the newest first.
RecordedRefactored(k) == [i \in 1..k |-> "w" \o ToString(k + 1 - i)]

\* A recorded call and how many calls were followed.
RecentStep(op, id, calls) == [op |-> op, id |-> id, ret |-> FALSE, calls |-> calls]

InitRecent ==
    /\ current_playlist = <<>>
    /\ current_index = 0
    /\ is_playing = FALSE
    /\ is_random = FALSE
    /\ timer_interval = DEFAULT_TIMER_INTERVAL
    /\ playlists = NoPlaylists
    /\ current_wallpaper = None
    /\ last_settings = NoSettings
    /\ pw_items = <<>>
    /\ pw_current = None
    /\ pw_random = FALSE
    /\ timer_active = FALSE
    /\ timer_ms = 0
    /\ settings_file = NoFile
    /\ probe_env = NoProcesses
    /\ picks = <<>>
    /\ last = RecentStep("init", None, 0)
    /\ lock = NoLock
    /\ \E k \in 0..MaxRecent :
         \/ /\ phase = "recent"
            /\ recent_wallpapers = Recorded(k)
            /\ refactored_recent = <<>>
         \/ /\ phase = "recent_refactored"
            /\ recent_wallpapers = <<>>
            /\ refactored_recent = RecordedRefactored(k)

\* PlaylistManager.add_to_recent(w), also with the empty string
AddToRecentCall ==
    /\ phase = "recent"
    /\ last.calls < MaxRecentCalls
    /\ \E w \in RecentIds \cup {""} :
         /\ recent_wallpapers' = add_to_recent(recent_wallpapers, w)
         /\ last' = RecentStep("add_to_recent", w, last.calls + 1)
    /\ UNCHANGED <<pmVars, engineVars, widgetVars, timerVars, settings_file,
                   probe_env, phase, picks, refactored_recent, lock>>

\* Flow.PlaylistManager.Add_To_Recent(w), also with the empty string
RefactoredAddToRecentCall ==
    /\ phase = "recent_refactored"
    /\ last.calls < MaxRecentCalls
    /\ \E w \in RecentIds \cup {""} :
         /\ refactored_recent' = Add_To_Recent(refactored_recent, w)
         /\ last' = RecentStep("Add_To_Recent", w, last.calls + 1)
    /\ UNCHANGED <<pmVars, engineVars, widgetVars, timerVars, settings_file,
                   probe_env, phase, picks, recent_wallpapers, lock>>

NextRecent == AddToRecentCall \/ RefactoredAddToRecentCall

SpecRecent == InitRecent /\ [][NextRecent]_vars

\* What the recency list is to be after the calls that led to it.
RecencyKept(recent, step) ==
    /\ NoDuplicates(recent)
    /\ Len(recent) <= MaxRecent
    /\ (step.calls > 0 /\ step.id # "") => recent[Len(recent)] = step.id
    /\ "" \notin Range(recent)

\* C17: after any sequence of recordings the recency list has no duplicate,
\* at most 20 entries, and ends with the identifier recorded last; an empty
\* identifier is not recorded.
C17_RecencyList ==
    /\ phase = "recent" => RecencyKept(recent_wallpapers, last)
    /\ phase = "recent_refactored" => RecencyKept(refactored_recent, last)

\* The recency list of PlaylistManager alone.
RecencyListOfManager ==
    phase = "recent" => RecencyKept(recent_wallpapers, last)

-----------------------------------------------------------------------------
(* Loading: PlaylistManager.load_settings and WallpaperEngine._load_state on
   any settings file, as the constructors call them on fresh objects. *)

\* What is at SETTINGS_FILE: nothing; a file in a directory that cannot be
\* searched; a file that cannot be opened; text that is not JSON; JSON that
\* is not an object; a JSON object.
FileKinds == {"missing", "unsearchable", "unreadable", "not_json", "not_object",
              "object"}

\* What the key wallpaper_state of a JSON object holds, when it is there: a
\* dict, or something else.
StateKinds == {"dict", "not_dict"}

\* The fields of a fresh PlaylistManager and of a fresh WallpaperEngine.
DefaultPM == PM(<<>>, 0, FALSE, FALSE, DEFAULT_TIMER_INTERVAL, NoPlaylists)
DefaultEngine == [current_wallpaper |-> None, last_settings |-> NoSettings]

\* JSON objects a settings file may hold.
StoredObjects ==
    {IF ws THEN save_state(save_settings(PM(pl, ci, ip, ir, ti, NoPlaylists)),
                           "A", ControlSettings)
     ELSE save_settings(PM(pl, ci, ip, ir, ti, NoPlaylists)) :
        pl \in {<<>>, <<"A">>, <<"A", "B">>}, ci \in 0..1, ip \in BOOLEAN,
        ir \in BOOLEAN, ti \in TimerIntervals, ws \in BOOLEAN}

\* The statement of a loader at which a file of this kind makes it fail.
FailingSite(kind) ==
    CASE kind = "unsearchable" -> "exists"
      [] kind = "unreadable" -> "open"
      [] kind = "not_json" -> "json.load"
      [] kind = "not_object" -> "get"
      [] OTHER -> None

\* The statements inside the try block of load_settings: SETTINGS_FILE.exists()
\* is evaluated before it.
load_settings_guarded == {"open", "json.load", "get"}

\* The statements inside the try block of _load_state: all of it.
load_state_guarded == {"exists", "open", "json.load", "get"}

\* PlaylistManager.load_settings on a raw file.  stat_raises: Path.exists()
\* raises PermissionError when the directory cannot be searched (it does up
\* to Python 3.12) instead of answering False.
load_settings_raw(raw, stat_raises) ==
    LET site == FailingSite(raw.kind) IN
    IF site = "exists" /\ stat_raises
    THEN [raised |-> "exists" \notin load_settings_guarded, ret |-> FALSE,
          pm |-> DefaultPM]
    ELSE IF raw.kind \in {"missing", "unsearchable"}
    THEN [raised |-> FALSE, ret |-> FALSE, pm |-> DefaultPM]
    ELSE IF site # None
    THEN [raised |-> site \notin load_settings_guarded, ret |-> FALSE,
          pm |-> DefaultPM]
    ELSE [raised |-> FALSE, ret |-> TRUE, pm |-> load_settings(raw.data)]

\* WallpaperEngine._load_state on a raw file: wallpaper_state.get fails on a
\* value that is not a dict, before either field is assigned.
load_state_raw(raw, stat_raises) ==
    LET site == IF raw.kind = "object" /\ raw.data.has_ws
                   /\ raw.ws_kind = "not_dict"
                THEN "get" ELSE FailingSite(raw.kind) IN
    IF site = "exists" /\ stat_raises
    THEN [raised |-> "exists" \notin load_state_guarded, engine |-> DefaultEngine]
    ELSE IF raw.kind \in {"missing", "unsearchable"}
    THEN [raised |-> FALSE, engine |-> DefaultEngine]
    ELSE IF site # None
    THEN [raised |-> site \notin load_state_guarded, engine |-> DefaultEngine]
    ELSE [raised |-> FALSE, engine |-> load_state(raw.data)]

\* A loader that ran, what it returned and whether its exception came out.
LoadStep(op, ret, raised) == [op |-> op, id |-> None, ret |-> ret, raised |-> raised]

InitLoad ==
    /\ current_playlist = <<>>
    /\ current_index = 0
    /\ is_playing = FALSE
    /\ is_random = FALSE
    /\ timer_interval = DEFAULT_TIMER_INTERVAL
    /\ playlists = NoPlaylists
    /\ current_wallpaper = None
    /\ last_settings = NoSettings
    /\ pw_items = <<>>
    /\ pw_current = None
    /\ pw_random = FALSE
    /\ timer_active = FALSE
    /\ timer_ms = 0
    /\ \E kind \in FileKinds :
         \/ /\ kind # "object"
            /\ settings_file = [kind |-> kind, data |-> NoFile, ws_kind |-> "dict"]
         \/ /\ kind = "object"
            /\ \E data \in StoredObjects, wk \in StateKinds :
                 /\ data.has_ws \/ wk = "dict"
                 /\ settings_file = [kind |-> kind, data |-> data, ws_kind |-> wk]
    /\ probe_env = NoProcesses
    /\ phase = "load"
    /\ last = LoadStep("init", FALSE, FALSE)
    /\ picks = <<>>
    /\ recent_wallpapers = <<>>
    /\ refactored_recent = <<>>
    /\ lock = NoLock

\* PlaylistManager(): the defaults, then load_settings()
LoadSettingsCall ==
    /\ phase = "load"
    /\ \E stat_raises \in BOOLEAN :
         LET r == load_settings_raw(settings_file, stat_raises)
         IN /\ SetPM(r.pm)
            /\ last' = LoadStep("load_settings", r.ret, r.raised)
    /\ UNCHANGED <<engineVars, widgetVars, timerVars, settings_file, probe_env,
                   phase, picks, recent_wallpapers, refactored_recent, lock>>

\* WallpaperEngine(): the defaults, then _load_state()
LoadStateCall ==
    /\ phase = "load"
    /\ \E stat_raises \in BOOLEAN :
         LET r == load_state_raw(settings_file, stat_raises)
         IN /\ current_wallpaper' = r.engine.current_wallpaper
            /\ last_settings' = r.engine.last_settings
            /\ last' = LoadStep("_load_state", r.engine.current_wallpaper # None,
                                r.raised)
    /\ UNCHANGED <<pmVars, widgetVars, timerVars, settings_file, probe_env,
                   phase, picks, recent_wallpapers, refactored_recent, lock>>

NextLoad == LoadSettingsCall \/ LoadStateCall

SpecLoad == InitLoad /\ [][NextLoad]_vars

\* C18: loading never raises; a missing, unreadable or malformed settings
\* file gives the defaults, and each loader sets all of its fields from the
\* file or none of them.
C18_LoadNeverRaises ==
    phase = "load" =>
        /\ ~last.raised
        /\ settings_file.kind # "object"
           => CurPM = DefaultPM /\ current_wallpaper = None
              /\ last_settings = NoSettings
        /\ CurPM \in {DefaultPM, load_settings(settings_file.data)}
        /\ [current_wallpaper |-> current_wallpaper, last_settings |-> last_settings]
           \in {DefaultEngine, load_state(settings_file.data)}

\* The same, leaving aside whether an exception comes out of the loader.
LoadedWholeOrDefault ==
    phase = "load" =>
        /\ settings_file.kind # "object"
           => CurPM = DefaultPM /\ current_wallpaper = None
              /\ last_settings = NoSettings
        /\ CurPM \in {DefaultPM, load_settings(settings_file.data)}
        /\ [current_wallpaper |-> current_wallpaper, last_settings |-> last_settings]
           \in {DefaultEngine, load_state(settings_file.data)}

\* C19: once the startup reconciliation has completed, the playlist timer
\* runs exactly when is_playing is true, whatever the reconciliation found
\* and whatever handlers ran since.
C19_TimerIffPlaying ==
    phase = "running" => (timer_active <=> is_playing)

\* WallpaperEngine.is_running: a wallpaper is taken to run when the engine
\* has an identifier.
is_running(cw) == cw # None

\* A renderer of the table paints w.
RendererAlive(procs, w) ==
    \E i \in 1..Len(procs) : procs[i] = Process("linux-wallpaperengine", w)

\* C21: a launch that fails when the process is started returns False, and
\* afterwards the engine does not report as running a wallpaper whose
\* renderer that same launch has terminated.
C21_FailedSpawnKeepsBeliefTrue ==
    [][(last'.op = "apply_wallpaper" /\ ~last'.ret)
       => (\/ ~is_running(current_wallpaper')
           \/ ~RendererAlive(probe_env, current_wallpaper')
           \/ RendererAlive(probe_env', current_wallpaper'))]_vars

\* C22: after a successful apply from the gallery, of a renderer wallpaper
\* or of a custom media, the engine's current wallpaper is the identifier
\* that was applied.
C22_CurrentIsLastApplied ==
    (phase = "engine" /\ last.op = "gui_apply" /\ last.ret)
        => current_wallpaper = last.id

-----------------------------------------------------------------------------
(* MainWindow._verify_wallpaper_process_running on any process table, the
   identifiers written out digit by digit so that one can be part of
   another. *)

\* Numeric folder names, shortened: 12 is the beginning of 123 and the end
\* of 312.
DigitIds == {<<1, 2>>, <<1, 2, 3>>, <<3, 1, 2>>, <<2, 1>>}

\* ' '.join(cmdline) of a process that paints id: the identifier between the
\* other words of the command line (0: text that is not a digit of it).
cmdline_str(id) == <<0>> \o id \o <<0>>

\* Python's  w in text  for strings
Occurs(w, text) ==
    \E i \in 1..(Len(text) - Len(w) + 1) : SubSeq(text, i, i + Len(w) - 1) = w

\* No process of the kind, or nothing reported.
NoDigits == <<>>

\* Process tables over these identifiers: what the renderer was started on,
\* what a video player plays, what swww reports.
DigitTables ==
    [renderer : {NoDigits} \cup DigitIds,
     video : {NoDigits} \cup DigitIds,
     swww : {NoDigits} \cup DigitIds]

\* MainWindow._verify_wallpaper_process_running(wallpaper_id): the
\* identifier occurs in the command line of a renderer or of a video
\* player, or swww reports exactly it.
verify_in_cmdline(env, w) ==
    \/ env.renderer # NoDigits /\ Occurs(w, cmdline_str(env.renderer))
    \/ env.video # NoDigits /\ Occurs(w, cmdline_str(env.video))
    \/ env.swww = w

\* The identifiers the three probes extract from the table.
Extracted(env) == {env.renderer, env.video, env.swww} \ {NoDigits}

InitVerify ==
    /\ current_playlist = <<>>
    /\ current_index = 0
    /\ is_playing = FALSE
    /\ is_random = FALSE
    /\ timer_interval = DEFAULT_TIMER_INTERVAL
    /\ playlists = NoPlaylists
    /\ current_wallpaper = None
    /\ last_settings = NoSettings
    /\ pw_items = <<>>
    /\ pw_current = None
    /\ pw_random = FALSE
    /\ timer_active = FALSE
    /\ timer_ms = 0
    /\ settings_file = NoFile
    /\ probe_env \in DigitTables
    /\ phase = "verify"
    /\ last = Last("init", None, FALSE)
    /\ picks = <<>>
    /\ recent_wallpapers = <<>>
    /\ refactored_recent = <<>>
    /\ lock = NoLock

\* _verify_wallpaper_process_running(w) for any identifier
VerifyCall ==
    /\ phase = "verify"
    /\ \E w \in DigitIds :
         last' = Last("verify", w, verify_in_cmdline(probe_env, w))
    /\ UNCHANGED <<pmVars, engineVars, widgetVars, timerVars, settings_file,
                   probe_env, phase, picks, recent_wallpapers, refactored_recent, lock>>

NextVerify == VerifyCall

SpecVerify == InitVerify /\ [][NextVerify]_vars

\* C23: the verification of an identifier answers true exactly when one of
\* the three probes extracts that very identifier; an identifier that is
\* only a part of the one a process paints does not make it answer true.
C23_VerifyIsStringEqual ==
    (phase = "verify" /\ last.op = "verify")
        => (last.ret <=> last.id \in Extracted(probe_env))

\* What the renderer-process probe extracts, by the engine's scan of --bg
\* or by the window's scan of the command line.
RendererEvidence(env) ==
    IF detect_running_wallpaper(env) # None THEN detect_running_wallpaper(env)
    ELSE detect_from_linux_wallpaperengine_process(env)

\* The first evidence in the order renderer process, video tool, swww.
FirstEvidence(env) ==
    IF RendererEvidence(env) # None THEN RendererEvidence(env)
    ELSE IF detect_from_video_wallpaper_process(env) # None
    THEN detect_from_video_wallpaper_process(env)
    ELSE detect_from_swww(env)

\* C24: the startup reconciliation surfaces the identifier of the first
\* probe that has evidence, in the order renderer process, video tool,
\* swww; a cached or persisted identifier never wins over a different one
\* that the renderer-process probe reports.
C24_ProbePriority ==
    [][RestoreAppState => last'.id = FirstEvidence(probe_env)]_vars

\* The renderer as WallpaperEngine.apply_wallpaper starts it:
\* <binary> --screen-root <screen> --bg <wallpaper_id> ...
launch_command(w) == [form |-> "bg", id |-> w]

\* Only the renderer that a launch of w started is running.
OnlyLaunched(w) ==
    [renderer |-> launch_command(w), video |-> None, swww |-> None]

-----------------------------------------------------------------------------
(* A start of the application on any settings file: the constructors and
   _restore_app_state of the window, and Load_Settings / Initialize_State of
   core_refactored. *)

\* Cursors a file may hold: negative, valid, and past the end of a playlist
\* that was shortened.
StoredCursors == -1..2

\* Playlists a file may hold as current_playlist and as playlists["current"].
StoredPlaylists == {<<>>, <<"A">>, <<"A", "B">>, <<"B">>}

\* Settings files with any cursor and any pair of stored playlists.
SnapshotFiles ==
    {save_settings(PM(pl, ci, ip, ir, DEFAULT_TIMER_INTERVAL, named)) :
        pl \in StoredPlaylists, ci \in StoredCursors, ip \in BOOLEAN,
        ir \in BOOLEAN,
        named \in {NoPlaylists} \cup [has_current : {TRUE}, current : StoredPlaylists]}

\* Flow.PlaylistManager.Initialize_State: a cursor at or past the end of the
\* playlist is set to 0.
Initialize_State(pm) ==
    IF pm.current_index >= Len(pm.current_playlist)
    THEN [pm EXCEPT !.current_index = 0] ELSE pm

InitStartup ==
    /\ current_playlist = <<>>
    /\ current_index = 0
    /\ is_playing = FALSE
    /\ is_random = FALSE
    /\ timer_interval = DEFAULT_TIMER_INTERVAL
    /\ playlists = NoPlaylists
    /\ current_wallpaper = None
    /\ last_settings = NoSettings
    /\ pw_items = <<>>
    /\ pw_current = None
    /\ pw_random = FALSE
    /\ timer_active = FALSE
    /\ timer_ms = 0
    /\ settings_file \in SnapshotFiles
    /\ probe_env = NoProcesses
    /\ phase = "off"
    /\ last = Last("init", None, FALSE)
    /\ picks = <<>>
    /\ recent_wallpapers = <<>>
    /\ refactored_recent = <<>>
    /\ lock = NoLock

\* core_refactored: Load_Settings(), then Initialize_State()
RefactoredStart ==
    /\ phase = "off"
    /\ SetPM(Initialize_State(load_settings(settings_file)))
    /\ phase' = "refactored"
    /\ last' = Last("Initialize_State", None, TRUE)
    /\ UNCHANGED <<engineVars, widgetVars, timerVars, settings_file, probe_env,
                   picks, recent_wallpapers, refactored_recent, lock>>

NextStartup == Construct \/ RestoreAppState \/ RefactoredStart

SpecStartup == InitStartup /\ [][NextStartup]_vars

\* The cursor is an index of the playlist, when there is one.
CursorInRange ==
    current_playlist # <<>> =>
        0 <= current_index /\ current_index < Len(current_playlist)

\* C26: after the playlist state is loaded from a snapshot the cursor is an
\* index of the playlist when it is not empty, whatever cursor and whatever
\* playlists the snapshot holds.
C26_LoadedCursorInRange ==
    (phase = "running" \/ phase = "refactored") => CursorInRange

\* The same for the window's startup alone.
WindowCursorInRange ==
    phase = "running" => CursorInRange

\* Flow.PlaylistManager.Remove_From_Current_Playlist of core_refactored;
\* ret: an identifier was returned rather than None.
Remove_From_Current_Playlist(pl, ci, index) ==
    IF 0 <= index /\ index < Len(pl)
    THEN [ret |-> TRUE, playlist |-> Pop(pl, index),
          index |-> IF ci >= index THEN Max(0, ci - 1) ELSE ci]
    ELSE [ret |-> FALSE, playlist |-> pl, index |-> ci]

\* C27: a removal at a valid index takes out exactly that entry and leaves
\* the cursor on the identifier it was on, unless that one was removed
\* (cursor one lower for an index before it, unchanged for one after it);
\* removing the entry under the cursor lowers a positive cursor by one and
\* leaves it inside the playlist; an invalid index fails and changes
\* nothing.  Both implementations agree.
C27_RemoveKeepsCursor ==
    [][\A i \in -1..MaxCallLen :
         RemoveAt(i) =>
            LET pl == current_playlist
                ci == current_index
                valid == 0 <= i /\ i < Len(pl) IN
            /\ Remove_From_Current_Playlist(pl, ci, i)
                 = [ret |-> last'.ret, playlist |-> current_playlist',
                    index |-> current_index']
            /\ valid => /\ last'.ret
                        /\ current_playlist' = Pop(pl, i)
                        /\ i < ci => /\ current_index' = ci - 1
                                     /\ current_playlist'[current_index' + 1] = pl[ci + 1]
                        /\ i > ci => /\ current_index' = ci
                                     /\ current_playlist'[current_index' + 1] = pl[ci + 1]
                        /\ i = ci => /\ current_index' = IF ci > 0 THEN ci - 1 ELSE 0
                                     /\ current_playlist' # <<>>
                                        => current_index' < Len(current_playlist')
            /\ ~valid => /\ ~last'.ret
                         /\ UNCHANGED <<current_playlist, current_index>>]_vars

\* C27 witness: B was removed from before the cursor, which stays on C.
C27_Witness ==
    /\ phase = "api"
    /\ last.op = "remove"
    /\ last.ret
    /\ current_playlist = <<"A", "C">>
    /\ current_index = 1

\* engine.apply_wallpaper(w, volume=v, fps=fps): the caller's numbers go into
\* last_settings as given; only the command line gets them clamped.
LaunchWithCall ==
    \E w \in Installed, v \in VolumeInputs, fps \in FpsInputs, popen \in BOOLEAN :
        LET given == [NoSettings EXCEPT !.keys = {"volume", "fps"},
                                        !.volume = v, !.fps = fps]
            r == engine_launch(w, Kwargs(given), TRUE, popen, current_wallpaper,
                               last_settings, settings_file, probe_env)
        IN /\ EngineCalled
           /\ current_wallpaper' = r.current_wallpaper
           /\ last_settings' = r.last_settings
           /\ settings_file' = r.file
           /\ probe_env' = r.procs
           /\ last' = Step("apply_wallpaper", w, r.ret, TRUE, r.killed, r.spawned)

\* engine.restart_with_new_settings(volume=v)
RestartWithCall ==
    \E v \in VolumeInputs, popen \in BOOLEAN :
        LET r == restart_with_new_settings(v, TRUE, popen, current_wallpaper,
                                           last_settings, settings_file, probe_env)
        IN /\ EngineCalled
           /\ current_wallpaper' = r.current_wallpaper
           /\ last_settings' = r.last_settings
           /\ settings_file' = r.file
           /\ probe_env' = r.procs
           /\ last' = Step("restart", current_wallpaper, r.ret, TRUE, r.killed,
                           r.spawned)

NextRender == LaunchWithCall \/ RestartWithCall \/ SetVolumeCall \/ SetFpsCall

SpecRender == InitEngine /\ [][NextRender]_vars

\* The volume and fps a settings dictionary holds are inside their ranges.
InRange(ls) ==
    /\ "volume" \in ls.keys => ls.volume \in 0..100
    /\ "fps" \in ls.keys => ls.fps \in 10..144

\* C28: the render settings the engine remembers and the ones it has written
\* to the settings file always have volume in 0..100 and fps in 10..144.
C28_StoredSettingsInRange ==
    phase = "engine" => /\ InRange(last_settings)
                        /\ InRange(load_state(settings_file).last_settings)

-----------------------------------------------------------------------------
(* The single-instance lock of main.py: Utils.acquire_lock and
   Utils.release_lock run by several instances, one system call at a time *)

InitLock ==
    /\ current_playlist = <<>>
    /\ current_index = 0
    /\ is_playing = FALSE
    /\ is_random = FALSE
    /\ timer_interval = DEFAULT_TIMER_INTERVAL
    /\ playlists = NoPlaylists
    /\ current_wallpaper = None
    /\ last_settings = NoSettings
    /\ pw_items = <<>>
    /\ pw_current = None
    /\ pw_random = FALSE
    /\ timer_active = FALSE
    /\ timer_ms = 0
    /\ settings_file = NoFile
    /\ probe_env = NoProcesses
    /\ phase = "lock"
    /\ last = Step("init", None, FALSE, TRUE, 0, FALSE)
    /\ picks = <<>>
    /\ recent_wallpapers = <<>>
    /\ refactored_recent = <<>>
    /\ lock = NoLock

\* What a step of an instance on the lock leaves alone.
LockStep(p, at) ==
    /\ phase = "lock"
    /\ lock.pc[p] = at
    /\ UNCHANGED <<pmVars, engineVars, widgetVars, timerVars, settings_file,
                   probe_env, phase, last, picks, recent_wallpapers,
                   refactored_recent>>

\* open(lock_path, 'w'): the file is created when the path names none, and
\* emptied.
OpenLockFile(p) ==
    /\ LockStep(p, "start")
    /\ LET made == lock.path = 0
           inode == IF made THEN lock.created + 1 ELSE lock.path
       IN lock' = [lock EXCEPT !.path = inode,
                               !.created = IF made THEN @ + 1 ELSE @,
                               !.pid[inode] = 0,
                               !.fd[p] = inode,
                               !.pc[p] = "flock"]

\* fcntl.flock(LOCK_EX | LOCK_NB): taken when no process holds the inode's
\* lock; otherwise it raises, the file is closed and acquire_lock returns
\* False.
Flock(p) ==
    /\ LockStep(p, "flock")
    /\ IF lock.holder[lock.fd[p]] = 0
       THEN lock' = [lock EXCEPT !.holder[lock.fd[p]] = p, !.pc[p] = "write"]
       ELSE lock' = [lock EXCEPT !.fd[p] = 0, !.pc[p] = "refused"]

\* write(str(os.getpid())), flush, is_locked = True, return True
WritePid(p) ==
    /\ LockStep(p, "write")
    /\ lock' = [lock EXCEPT !.pid[lock.fd[p]] = p, !.is_locked[p] = TRUE,
                            !.pc[p] = "locked"]

\* Flow.create_application after check_single_instance returned True
CreateApplication(p) ==
    /\ LockStep(p, "locked")
    /\ lock' = [lock EXCEPT !.main_window[p] = TRUE, !.pc[p] = "running"]

\* release_lock at exit: flock(LOCK_UN)
Unlock(p) ==
    /\ LockStep(p, "running")
    /\ lock.is_locked[p]
    /\ lock' = [lock EXCEPT !.holder[lock.fd[p]] = 0, !.pc[p] = "close"]

\* release_lock: lock_file.close()
CloseLockFile(p) ==
    /\ LockStep(p, "close")
    /\ lock' = [lock EXCEPT !.fd[p] = 0, !.pc[p] = "unlink"]

\* release_lock: lock_path.unlink() when it exists, is_locked = False
UnlinkLockFile(p) ==
    /\ LockStep(p, "unlink")
    /\ lock' = [lock EXCEPT !.path = 0, !.is_locked[p] = FALSE, !.pc[p] = "done"]

NextLock ==
    \E p \in 1..Instances :
        \/ OpenLockFile(p)
        \/ Flock(p)
        \/ WritePid(p)
        \/ CreateApplication(p)
        \/ Unlock(p)
        \/ CloseLockFile(p)
        \/ UnlinkLockFile(p)

SpecLock == InitLock /\ [][NextLock]_vars

\* acquire_lock has returned True to the process and its release_lock has
\* not begun.
Believes(p) == lock.pc[p] \in {"locked", "running"}

\* C29: at most one instance at a time believes it holds the single-instance
\* lock, and an instance whose acquire_lock failed has no main window.
C29_SingleInstance ==
    phase = "lock" =>
        /\ \A p, q \in 1..Instances : (Believes(p) /\ Believes(q)) => p = q
        /\ \A p \in 1..Instances : lock.pc[p] = "refused" => ~lock.main_window[p]

-----------------------------------------------------------------------------
(* Several renderer processes at once: what psutil.process_iter hands to
   the probes, in the order it hands it *)

\* Process identifiers and how many processes a table holds
MaxPid == 3
MaxProcesses == 2

\* The processes a table may hold: a renderer started with an identifier, or
\* a video player.
IterProcesses ==
    [pid : 1..MaxPid, name : {"linux-wallpaperengine", "mpv"}, id : {"A", "B"}]

\* The tables process_iter may yield: processes with different pids in any
\* order of enumeration.
ProcessLists ==
    UNION {{t \in [1..n -> IterProcesses] :
              \A i, j \in 1..n : t[i].pid = t[j].pid => i = j} : n \in 0..MaxProcesses}

\* The positions of the renderer processes of a table
Renderers(procs) == {i \in 1..Len(procs) : procs[i].name = "linux-wallpaperengine"}

\* MainWindow._detect_from_linux_wallpaperengine_process and
\* WallpaperEngine._detect_running_wallpaper: the loop over process_iter
\* returns (breaks) at the first renderer whose command line has an identifier.
detect_first_match(procs) ==
    IF Renderers(procs) = {} THEN None
    ELSE procs[CHOOSE i \in Renderers(procs) : \A j \in Renderers(procs) : i <= j].id

\* PerformanceMonitor._find_wallpaper_process: the pid of the match with the
\* highest pid, 0 for None.
find_wallpaper_process(procs) ==
    IF Renderers(procs) = {} THEN 0
    ELSE CHOOSE q \in {procs[i].pid : i \in Renderers(procs)} :
             \A i \in Renderers(procs) : procs[i].pid <= q

ProbeStep(op, id, pid) == [op |-> op, id |-> id, pid |-> pid]

InitProbe ==
    /\ current_playlist = <<>>
    /\ current_index = 0
    /\ is_playing = FALSE
    /\ is_random = FALSE
    /\ timer_interval = DEFAULT_TIMER_INTERVAL
    /\ playlists = NoPlaylists
    /\ current_wallpaper = None
    /\ last_settings = NoSettings
    /\ pw_items = <<>>
    /\ pw_current = None
    /\ pw_random = FALSE
    /\ timer_active = FALSE
    /\ timer_ms = 0
    /\ settings_file = NoFile
    /\ probe_env \in ProcessLists
    /\ phase = "probe"
    /\ last = ProbeStep("init", None, 0)
    /\ picks = <<>>
    /\ recent_wallpapers = <<>>
    /\ refactored_recent = <<>>
    /\ lock = NoLock

\* What a probe leaves alone.
Probed ==
    /\ phase = "probe"
    /\ UNCHANGED <<pmVars, last_settings, widgetVars, timerVars, probe_env,
                   phase, picks, recent_wallpapers, refactored_recent, lock>>

\* MainWindow._detect_from_linux_wallpaperengine_process()
WindowProbeCall ==
    /\ Probed
    /\ last' = ProbeStep("window_probe", detect_first_match(probe_env), 0)
    /\ UNCHANGED <<current_wallpaper, settings_file>>

\* WallpaperEngine._detect_running_wallpaper(): a detected identifier
\* becomes current_wallpaper and is written by _save_state.
EngineProbeCall ==
    /\ Probed
    /\ LET detected == detect_first_match(probe_env)
       IN /\ last' = ProbeStep("engine_probe", detected, 0)
          /\ current_wallpaper' = IF detected # None THEN detected
                                  ELSE current_wallpaper
          /\ settings_file' = IF detected # None
                              THEN save_state(settings_file, detected, last_settings)
                              ELSE settings_file

\* PerformanceMonitor._find_wallpaper_process()
FindWallpaperProcessCall ==
    /\ Probed
    /\ last' = ProbeStep("find_process", None, find_wallpaper_process(probe_env))
    /\ UNCHANGED <<current_wallpaper, settings_file>>

NextProbe == WindowProbeCall \/ EngineProbeCall \/ FindWallpaperProcessCall

SpecProbe == InitProbe /\ [][NextProbe]_vars

\* The identifier of the renderer process with the highest pid
HighestPidId(procs) ==
    procs[CHOOSE i \in Renderers(procs) :
              procs[i].pid = find_wallpaper_process(procs)].id

\* C30: with renderer processes in the table, the renderer-process probe
\* answers the identifier of the one with the highest pid, in whatever order
\* the processes are enumerated.
C30_HighestPidWins ==
    (/\ phase = "probe"
     /\ last.op \in {"window_probe", "engine_probe"}
     /\ Renderers(probe_env) # {})
    => last.id = HighestPidId(probe_env)

====
